---------------------------- MODULE Spec2Model ----------------------------
(***************************************************************************)
(* A model of peridot-core's Controller (internal/controller), its Job     *)
(* Runner (internal/jobcontroller.JobController) and the Agent Sessions    *)
(* (runJobAgent).                                                          *)
(*                                                                         *)
(* Three kinds of process share the state below:                           *)
(*   - the Controller's event loop (jobSetProcessorLoop), which owns the   *)
(*     jobs / jobSets tables and runs createNewJobSets and runScheduler;   *)
(*   - the Job Runner's multiplexer goroutine, which owns its own job      *)
(*     records and publishes them on jobRecordStream;                      *)
(*   - one Agent Session goroutine per started job.                        *)
(* All channels between them are unbuffered, so a send is a rendezvous:    *)
(* the sender's position says that it is blocked in the send, and the      *)
(* receiver's action completes it.                                         *)
(*                                                                         *)
(* A JobSet's step tree ([]*Step with ConcurrentSteps children) is kept as *)
(* an arena: Steps is the sequence of all Step records indexed by StepID   *)
(* (IDs are handed out depth-first from 1), a step's ConcurrentSteps is    *)
(* the sequence of its children's StepIDs, and TopSteps is the sequence of *)
(* the top-level StepIDs.                                                  *)
(***************************************************************************)
EXTENDS Naturals, Sequences, FiniteSets, TLC

(***************************************************************************)
(* Bounds of the model.                                                    *)
(***************************************************************************)
\* how many StartJobSet calls the environment makes
MaxStartJobSet == 2
\* how many StatusReports one Agent sends on one stream
MaxReports == 1

\* how many times Start succeeds at most
MaxStart == 2

(***************************************************************************)
(* Configuration.                                                          *)
(***************************************************************************)
\* Config.MaxJobsRunning as handed to Controller.Init: any value from 1 on
\* is a configuration, and the model runs with a small one
maxJobsRunning == 2

\* the agents registered (AddAgent) before Start; "Z" is never registered
RegisteredAgents == {"A", "B", "C"}

StepTypeAgent == "agent"
StepTypeJobSet == "jobset"
StepTypeConcurrent == "concurrent"

AgentT(name) ==
    [T |-> StepTypeAgent, AgentName |-> name, JSTemplateName |-> "",
     ConcurrentStepTemplates |-> <<>>]
JobSetT(name) ==
    [T |-> StepTypeJobSet, AgentName |-> "", JSTemplateName |-> name,
     ConcurrentStepTemplates |-> <<>>]
ConcurrentT(kids) ==
    [T |-> StepTypeConcurrent, AgentName |-> "", JSTemplateName |-> "",
     ConcurrentStepTemplates |-> kids]

\* the JobSetTemplates the operator may register (AddJobSetTemplate)
TemplateSteps ==
    [ AB    |-> << AgentT("A"), AgentT("B") >>,
      CC    |-> << ConcurrentT(<< AgentT("A"), AgentT("B") >>), AgentT("C") >>,
      Outer |-> << AgentT("A"), JobSetT("Inner"), AgentT("C") >>,
      Inner |-> << AgentT("B") >>,
      Bad   |-> << JobSetT("Late") >>,
      Late  |-> << AgentT("Z") >>,
      Empty |-> << >>,
      Mixed |-> << AgentT("A"), JobSetT("Late") >> ]

\* registered before the Controller is started
InitialTemplates == {"AB", "CC", "Outer", "Inner", "Bad"}
\* registered only later, if at all
LateTemplates == {"Late"}

\* the configs a StartJobSet call may carry; "nil" is Go's nil map
ConfigChoices == {"cfg1"}

(***************************************************************************)
(* Status domains (pkg/status, pkg/agent).                                 *)
(***************************************************************************)
STATUS_SAME == "STATUS_SAME"
STARTUP == "STARTUP"
RUNNING == "RUNNING"
STOPPED == "STOPPED"
HEALTH_SAME == "HEALTH_SAME"
OK == "OK"
DEGRADED == "DEGRADED"
ERROR == "ERROR"

RunStatuses == {STATUS_SAME, STARTUP, RUNNING, STOPPED}
HealthStatuses == {HEALTH_SAME, OK, DEGRADED, ERROR}

StatusReport(run, health) == [RunStatus |-> run, HealthStatus |-> health]

\* the StatusReports an Agent may send on its stream
AgentReports ==
    { StatusReport(RUNNING, OK), StatusReport(STOPPED, OK) }

(***************************************************************************)
(* Steps.                                                                  *)
(***************************************************************************)
JobSetRequest(tmpl, cfg, parentJS, parentStep, requested) ==
    [TemplateName |-> tmpl, Configs |-> cfg, ParentJobSetID |-> parentJS,
     ParentJobStepID |-> parentStep, RequestedJobSetID |-> requested]

\* findStepInSteps: the StepID of the step with the given ID among the steps
\* ids and, recursively, their concurrent sub-steps; 0 stands for nil
RECURSIVE findStepInSteps(_, _, _)
findStepInSteps(arena, ids, stepID) ==
    IF ids = <<>> THEN 0
    ELSE LET step == arena[Head(ids)]
             checkStep == IF step.T = StepTypeConcurrent
                          THEN findStepInSteps(arena, step.ConcurrentSteps, stepID)
                          ELSE 0
         IN  IF step.StepID = stepID THEN step.StepID
             ELSE IF checkStep # 0 THEN checkStep
             ELSE findStepInSteps(arena, Tail(ids), stepID)

\* createStepsFromTemplateHelper: acc holds the arena built so far, the
\* StepIDs created at this level (ids), the pendingJSRs list and nextStepID
RECURSIVE createStepsFromTemplateHelper(_, _, _, _)
createStepsFromTemplateHelper(jobSetID, configs, sts, acc) ==
    IF sts = <<>> THEN acc
    ELSE
      LET st == Head(sts)
          step == [T |-> st.T, JobSetID |-> jobSetID, StepID |-> acc.nextStepID,
                   StepOrder |-> acc.nextStepID,
                   RunStatus |-> STARTUP, HealthStatus |-> OK,
                   AgentJobID |-> 0,
                   AgentName |-> IF st.T = StepTypeAgent THEN st.AgentName ELSE "",
                   SubJobSetID |-> 0,
                   SubJobSetTemplateName |->
                       IF st.T = StepTypeJobSet THEN st.JSTemplateName ELSE "",
                   SubJobSetRequestSubmitted |-> FALSE,
                   ConcurrentSteps |-> <<>>]
          jsr == JobSetRequest(st.JSTemplateName, configs, jobSetID, step.StepID, 0)
          acc1 == [arena |-> Append(acc.arena, step),
                   ids |-> acc.ids,
                   pendingJSRs |-> IF st.T = StepTypeJobSet
                                   THEN Append(acc.pendingJSRs, jsr)
                                   ELSE acc.pendingJSRs,
                   nextStepID |-> acc.nextStepID + 1]
          sub == createStepsFromTemplateHelper(jobSetID, configs,
                     st.ConcurrentStepTemplates, [acc1 EXCEPT !.ids = <<>>])
          acc2 == IF st.T = StepTypeConcurrent
                  THEN [sub EXCEPT !.arena[step.StepID].ConcurrentSteps = sub.ids,
                                   !.ids = acc.ids]
                  ELSE acc1
      IN  createStepsFromTemplateHelper(jobSetID, configs, Tail(sts),
              [acc2 EXCEPT !.ids = Append(acc2.ids, step.StepID)])

\* createStepsFromTemplate: starts the recursion with step ID 1
createStepsFromTemplate(jobSetID, configs, pendingJSRs, sts) ==
    createStepsFromTemplateHelper(jobSetID, configs, sts,
        [arena |-> <<>>, ids |-> <<>>, pendingJSRs |-> pendingJSRs, nextStepID |-> 1])

(***************************************************************************)
(* Status bubbling (scheduler.go).                                         *)
(***************************************************************************)
Merge(old, new, same) == IF new # same THEN new ELSE old

RECURSIVE determineStepStatuses(_, _, _)

\* a concurrent step takes the statuses sub that its sub-steps bubbled up
concurrentStepStatus(id, sub) ==
    [arena |-> [sub.arena EXCEPT
                  ![id].RunStatus = Merge(@, sub.newStatus, STATUS_SAME),
                  ![id].HealthStatus = Merge(@, sub.newHealth, HEALTH_SAME)],
     fatal |-> sub.fatal]

\* a jobset step takes the statuses of its sub-JobSet; log.Fatalf if its
\* SubJobSetID is no key of jobSets
jobSetStepStatus(jobSets, arena, id) ==
    IF arena[id].SubJobSetID \in DOMAIN jobSets
    THEN [arena |-> [arena EXCEPT
                       ![id].RunStatus = jobSets[arena[id].SubJobSetID].RunStatus,
                       ![id].HealthStatus = jobSets[arena[id].SubJobSetID].HealthStatus],
          fatal |-> FALSE]
    ELSE [arena |-> arena, fatal |-> TRUE]

\* the first half of the loop body: bring the step's own status up to date
updateStepStatus(jobSets, arena, id) ==
    IF arena[id].T = StepTypeConcurrent
    THEN concurrentStepStatus(id,
             determineStepStatuses(jobSets, arena, arena[id].ConcurrentSteps))
    ELSE IF arena[id].T = StepTypeJobSet
    THEN jobSetStepStatus(jobSets, arena, id)
    ELSE [arena |-> arena, fatal |-> FALSE]

\* bubbleStepStatus evaluating the step as it was before its own status
\* was brought up to date
bubbleStepStatusStale(acc, u, id) ==
    IF u.fatal THEN [acc EXCEPT !.fatal = TRUE]
    ELSE [arena |-> u.arena,
          allStopped |-> acc.allStopped /\ acc.arena[id].RunStatus = STOPPED,
          newStatus |-> IF acc.arena[id].HealthStatus = ERROR
                        THEN STOPPED ELSE acc.newStatus,
          newHealth |-> IF acc.arena[id].HealthStatus = ERROR THEN ERROR
                        ELSE IF acc.arena[id].HealthStatus = DEGRADED
                                /\ acc.newHealth # ERROR
                        THEN DEGRADED ELSE acc.newHealth,
          fatal |-> FALSE]

\* bubbleStepStatus taking health DEGRADED for ERROR
bubbleStepStatusDegradedIsError(acc, u, id) ==
    IF u.fatal THEN [acc EXCEPT !.fatal = TRUE]
    ELSE [arena |-> u.arena,
          allStopped |-> acc.allStopped /\ u.arena[id].RunStatus = STOPPED,
          newStatus |-> IF u.arena[id].HealthStatus \in {ERROR, DEGRADED}
                        THEN STOPPED ELSE acc.newStatus,
          newHealth |-> IF u.arena[id].HealthStatus \in {ERROR, DEGRADED}
                        THEN ERROR ELSE acc.newHealth,
          fatal |-> FALSE]

\* the second half of the loop body: evaluate the step, whose status u has
\* brought up to date, and bubble upwards
bubbleStepStatus(acc, u, id) ==
    IF u.fatal THEN [acc EXCEPT !.fatal = TRUE]
    ELSE [arena |-> u.arena,
          allStopped |-> acc.allStopped /\ u.arena[id].RunStatus = STOPPED,
          newStatus |-> IF u.arena[id].HealthStatus = ERROR
                        THEN STOPPED ELSE acc.newStatus,
          newHealth |-> IF u.arena[id].HealthStatus = ERROR THEN ERROR
                        ELSE IF u.arena[id].HealthStatus = DEGRADED
                                /\ acc.newHealth # ERROR
                        THEN DEGRADED ELSE acc.newHealth,
          fatal |-> FALSE]

\* the loop of determineStepStatuses over the steps ids
RECURSIVE determineStepStatusesLoop(_, _, _)
determineStepStatusesLoop(jobSets, ids, acc) ==
    IF ids = <<>> \/ acc.fatal THEN acc
    ELSE determineStepStatusesLoop(jobSets, Tail(ids),
             bubbleStepStatus(acc, updateStepStatus(jobSets, acc.arena, Head(ids)),
                              Head(ids)))

\* what determineStepStatuses returns once its loop ended in r
bubbledStatuses(r) ==
    [arena |-> r.arena,
     newStatus |-> IF r.allStopped THEN STOPPED ELSE r.newStatus,
     newHealth |-> r.newHealth,
     fatal |-> r.fatal]

\* determineStepStatuses walks the steps ids of the arena; it returns the
\* arena with the concurrent and jobset steps' statuses updated, the new
\* run and health status, and whether it hit log.Fatalf
determineStepStatuses(jobSets, arena, ids) ==
    bubbledStatuses(determineStepStatusesLoop(jobSets, ids,
        [arena |-> arena, allStopped |-> TRUE, newStatus |-> STATUS_SAME,
         newHealth |-> HEALTH_SAME, fatal |-> FALSE]))

\* the JobSet takes the statuses r that its steps bubbled up
jobSetStatus(c, jobSetID, r) ==
    IF r.fatal THEN [c EXCEPT !.fatal = TRUE]
    ELSE [c EXCEPT !.jobSets[jobSetID].Steps = r.arena,
                   !.jobSets[jobSetID].RunStatus = Merge(@, r.newStatus, STATUS_SAME),
                   !.jobSets[jobSetID].HealthStatus =
                       Merge(@, r.newHealth, HEALTH_SAME)]

\* updateJobSetStatusForJob, on the controller state c (a record of the
\* Controller's fields): recompute the status of the job's JobSet
updateJobSetStatusForJob(c, job) ==
    IF job.JobSetID \notin DOMAIN c.jobSets
    THEN [c EXCEPT !.fatal = TRUE]
    ELSE jobSetStatus(c, job.JobSetID,
             determineStepStatuses(c.jobSets, c.jobSets[job.JobSetID].Steps,
                                   c.jobSets[job.JobSetID].TopSteps))

(***************************************************************************)
(* Readiness (steps.go).                                                   *)
(***************************************************************************)
NoSteps == [agents |-> <<>>, jobsets |-> <<>>]

\* the two slices that retrieveConcurrentStartupSteps returns, joined
JoinSteps(a, b) ==
    [agents |-> a.agents \o b.agents, jobsets |-> a.jobsets \o b.jobsets]

\* retrieveConcurrentStartupSteps: every STARTUP step below the steps ids,
\* as a sequence of agent steps and a sequence of unsubmitted jobset steps
RECURSIVE retrieveConcurrentStartupSteps(_, _)
retrieveConcurrentStartupSteps(arena, ids) ==
    IF ids = <<>> THEN NoSteps
    ELSE JoinSteps(
           IF arena[Head(ids)].RunStatus # STARTUP THEN NoSteps
           ELSE IF arena[Head(ids)].T = StepTypeAgent
           THEN [agents |-> << Head(ids) >>, jobsets |-> <<>>]
           ELSE IF arena[Head(ids)].T = StepTypeJobSet
           THEN [agents |-> <<>>,
                 jobsets |-> IF arena[Head(ids)].SubJobSetRequestSubmitted
                             THEN <<>> ELSE << Head(ids) >>]
           ELSE retrieveConcurrentStartupSteps(arena, arena[Head(ids)].ConcurrentSteps),
           retrieveConcurrentStartupSteps(arena, Tail(ids)))

Ready(agents, jobsets, problem) ==
    [agents |-> agents, jobsets |-> jobsets, problem |-> problem]

\* a concurrent step in STARTUP is ready with the STARTUP steps r below it
concurrentReady(r) == Ready(r.agents, r.jobsets, FALSE)

\* retrieveReadySteps: the ready agent steps, the ready jobset steps, and
\* whether a problem should stop this JobSet
RECURSIVE retrieveReadySteps(_, _)

\* retrieveReadySteps going on to the next step when a step is RUNNING,
\* instead of returning
retrieveReadyStepsPastRunning(arena, ids) ==
    IF ids = <<>> THEN Ready(<<>>, <<>>, FALSE)
    ELSE
      LET step == arena[Head(ids)]
      IN  CASE step.RunStatus = RUNNING -> retrieveReadySteps(arena, Tail(ids))
            [] step.RunStatus = STOPPED ->
                 IF step.HealthStatus = ERROR
                 THEN Ready(<<>>, <<>>, TRUE)
                 ELSE retrieveReadySteps(arena, Tail(ids))
            [] step.RunStatus = STARTUP ->
                 IF step.T = StepTypeAgent
                 THEN Ready(<< step.StepID >>, <<>>, FALSE)
                 ELSE IF step.T = StepTypeJobSet
                 THEN IF step.SubJobSetRequestSubmitted
                      THEN Ready(<<>>, <<>>, FALSE)
                      ELSE Ready(<<>>, << step.StepID >>, FALSE)
                 ELSE concurrentReady(
                        retrieveConcurrentStartupSteps(arena, step.ConcurrentSteps))
            [] OTHER -> Ready(<<>>, <<>>, TRUE)

retrieveReadySteps(arena, ids) ==
    IF ids = <<>> THEN Ready(<<>>, <<>>, FALSE)
    ELSE
      LET step == arena[Head(ids)]
      IN  CASE step.RunStatus = RUNNING -> Ready(<<>>, <<>>, FALSE)
            [] step.RunStatus = STOPPED ->
                 IF step.HealthStatus = ERROR
                 THEN Ready(<<>>, <<>>, TRUE)
                 ELSE retrieveReadySteps(arena, Tail(ids))
            [] step.RunStatus = STARTUP ->
                 IF step.T = StepTypeAgent
                 THEN Ready(<< step.StepID >>, <<>>, FALSE)
                 ELSE IF step.T = StepTypeJobSet
                 THEN IF step.SubJobSetRequestSubmitted
                      THEN Ready(<<>>, <<>>, FALSE)
                      ELSE Ready(<<>>, << step.StepID >>, FALSE)
                 ELSE concurrentReady(
                        retrieveConcurrentStartupSteps(arena, step.ConcurrentSteps))
            [] OTHER -> Ready(<<>>, <<>>, TRUE)

\* the body of the loop of getReadyStepsForJobSet over the ready jobset
\* steps: enqueue a JobSetRequest for the step and mark it submitted
submitJobSetStep(c, jobSetID, id) ==
    IF c.jobSets[jobSetID].Steps[id].JobSetID \notin DOMAIN c.jobSets
    THEN c
    ELSE [c EXCEPT
            !.pendingJSRs = Append(@,
                JobSetRequest(c.jobSets[jobSetID].Steps[id].SubJobSetTemplateName,
                              c.jobSets[c.jobSets[jobSetID].Steps[id].JobSetID].Configs,
                              c.jobSets[jobSetID].Steps[id].JobSetID,
                              c.jobSets[jobSetID].Steps[id].StepID, 0)),
            !.jobSets[jobSetID].Steps[id].SubJobSetRequestSubmitted = TRUE]

RECURSIVE submitReadyJobSetSteps(_, _, _)
submitReadyJobSetSteps(c, jobSetID, ids) ==
    IF ids = <<>> THEN c
    ELSE submitReadyJobSetSteps(submitJobSetStep(c, jobSetID, Head(ids)),
                                jobSetID, Tail(ids))

\* getReadyStepsForJobSet once retrieveReadySteps returned r
readyStepsForJobSet(c, jobSetID, r) ==
    IF r.problem
    THEN [c |-> c, readyAgentSteps |-> <<>>]
    ELSE [c |-> IF c.openForJobSetRequests
                THEN submitReadyJobSetSteps(c, jobSetID, r.jobsets)
                ELSE c,
          readyAgentSteps |-> r.agents]

\* getReadyStepsForJobSet: the controller state after the JobSetRequests were
\* enqueued, and the ready agent steps
getReadyStepsForJobSet(c, jobSetID) ==
    readyStepsForJobSet(c, jobSetID,
        retrieveReadySteps(c.jobSets[jobSetID].Steps, c.jobSets[jobSetID].TopSteps))

(***************************************************************************)
(* Pipeline instantiation (createNewJobSets).                              *)
(*                                                                         *)
(* c is the Controller struct as a record.  Besides the fields of the      *)
(* source it carries three history fields that no code reads: fatal        *)
(* (log.Fatalf was reached: the process is gone), createdJobSetIDs and     *)
(* createdJobIDs (the IDs under which JobSets and Jobs were created, in    *)
(* creation order).  A JobSet record likewise remembers the parent         *)
(* pointers of the request it was instantiated from.                       *)
(***************************************************************************)
Put(f, k, v) == [x \in DOMAIN f \cup {k} |-> IF x = k THEN v ELSE f[x]]

NewJobSet(jobSetID, jsr) ==
    [JobSetID |-> jobSetID, TemplateName |-> jsr.TemplateName,
     RunStatus |-> STARTUP, HealthStatus |-> OK,
     Steps |-> <<>>, TopSteps |-> <<>>, Configs |-> "nil",
     ParentJobSetID |-> jsr.ParentJobSetID,
     ParentJobStepID |-> jsr.ParentJobStepID]

RECURSIVE createNewJobSetsFrom(_, _)

\* the ID the JobSet for the request jsr gets
newJobSetID(c, jsr) ==
    IF jsr.RequestedJobSetID # 0 THEN jsr.RequestedJobSetID ELSE c.nextJobSetID

\* addJobSet forgetting to advance nextJobSetID
addJobSetSameID(c, jsr, jobSetID) ==
    [c EXCEPT !.jobSets = Put(@, jobSetID, NewJobSet(jobSetID, jsr)),
              !.activeJobSets = @ \cup {jobSetID},
              !.createdJobSetIDs = Append(@, jobSetID)]

\* the new JobSet entry in jobSets and activeJobSets
addJobSet(c, jsr, jobSetID) ==
    [c EXCEPT !.nextJobSetID = IF jsr.RequestedJobSetID # 0 THEN @ ELSE @ + 1,
              !.jobSets = Put(@, jobSetID, NewJobSet(jobSetID, jsr)),
              !.activeJobSets = @ \cup {jobSetID},
              !.createdJobSetIDs = Append(@, jobSetID)]

\* the JobSet errors out
stopInError(c, jobSetID) ==
    [c EXCEPT !.jobSets[jobSetID].RunStatus = STOPPED,
              !.jobSets[jobSetID].HealthStatus = ERROR]

\* the JobSet errors out and the Controller moves to its error state
controllerError(c, jobSetID) ==
    [c EXCEPT !.jobSets[jobSetID].RunStatus = STOPPED,
              !.jobSets[jobSetID].HealthStatus = ERROR,
              !.runStatus = STOPPED,
              !.healthStatus = ERROR,
              !.errorMsg = Append(@, "JobSetRequest")]

\* the JobSet takes the request's configs and the steps made from its template
setJobSetSteps(c, jsr, jobSetID, made) ==
    [c EXCEPT !.jobSets[jobSetID].Configs = jsr.Configs,
              !.jobSets[jobSetID].Steps = made.arena,
              !.jobSets[jobSetID].TopSteps = made.ids,
              !.pendingJSRs = made.pendingJSRs]

\* updateParentStep storing the next free ID instead of the JobSet's own
updateParentStepNextID(c, jsr, jobSetID, e, stepToUpdate) ==
    IF stepToUpdate = 0 THEN controllerError(c, jobSetID)
    ELSE createNewJobSetsFrom(
           [c EXCEPT !.jobSets[jsr.ParentJobSetID].Steps[stepToUpdate].SubJobSetID
                         = c.nextJobSetID],
           e + 1)

\* the parent's step stepToUpdate (0 for nil) learns the JobSet's ID
updateParentStep(c, jsr, jobSetID, e, stepToUpdate) ==
    IF stepToUpdate = 0 THEN controllerError(c, jobSetID)
    ELSE createNewJobSetsFrom(
           [c EXCEPT !.jobSets[jsr.ParentJobSetID].Steps[stepToUpdate].SubJobSetID
                         = jobSetID],
           e + 1)

\* the end of the loop body: a JobSet made for a step finds its parent
updateParent(c, jsr, jobSetID, e) ==
    IF jsr.ParentJobSetID = 0 THEN createNewJobSetsFrom(c, e + 1)
    ELSE IF jsr.ParentJobSetID \notin DOMAIN c.jobSets
    THEN controllerError(c, jobSetID)
    ELSE updateParentStep(c, jsr, jobSetID, e,
             findStepInSteps(c.jobSets[jsr.ParentJobSetID].Steps,
                             c.jobSets[jsr.ParentJobSetID].TopSteps,
                             jsr.ParentJobStepID))

\* the loop body once the JobSet's entry was added: an unknown template
\* makes createNewJobSets return, leaving pendingJSRs as it is
createJobSet(c, jsr, jobSetID, e) ==
    IF jsr.TemplateName \notin c.jobSetTemplates THEN stopInError(c, jobSetID)
    ELSE updateParent(
           setJobSetSteps(c, jsr, jobSetID,
               createStepsFromTemplate(jobSetID, jsr.Configs, c.pendingJSRs,
                                       TemplateSteps[jsr.TemplateName])),
           jsr, jobSetID, e)

\* the for loop of createNewJobSets from list element e on; the end of the
\* list replaces pendingJSRs by a new list
createNewJobSetsFrom(c, e) ==
    IF e > Len(c.pendingJSRs) THEN [c EXCEPT !.pendingJSRs = <<>>]
    ELSE createJobSet(
           addJobSet(c, c.pendingJSRs[e], newJobSetID(c, c.pendingJSRs[e])),
           c.pendingJSRs[e], newJobSetID(c, c.pendingJSRs[e]), e)

createNewJobSets(c) == createNewJobSetsFrom(c, 1)

\* updateJobStatus: store the JobRecord's status in the Job
updateJobStatus(c, jr) ==
    IF jr.JobID \notin DOMAIN c.jobs
    THEN [c EXCEPT !.runStatus = STOPPED, !.healthStatus = ERROR,
                   !.errorMsg = Append(@, "JobRecord")]
    ELSE [c EXCEPT !.jobs[jr.JobID].Status = jr.Status]

(***************************************************************************)
(* Job configuration (steps.go, controller.go).  A source string           *)
(* "<agentName>.<jobSetID>.<jobID>" is the tuple of its three parts, a     *)
(* directory the tuple of its path elements below volPrefix.               *)
(***************************************************************************)
getCodeOutputDir(jobSetID, jobID, agentName) == << "code", jobSetID, agentName, jobID >>

getSpdxOutputDir(jobSetID, jobID, agentName) == << "spdx", jobSetID, agentName, jobID >>

getCodeInput(jobSetID, jobID, agentName) ==
    [Source |-> << agentName, jobSetID, jobID >>,
     Paths |-> << getCodeOutputDir(jobSetID, jobID, agentName) >>]

getSpdxInput(jobSetID, jobID, agentName) ==
    [Source |-> << agentName, jobSetID, jobID >>,
     Paths |-> << getSpdxOutputDir(jobSetID, jobID, agentName) >>]

\* getFinalStep: the ID of the last step of ids, looking into a concurrent
\* last step
RECURSIVE getFinalStep(_, _)
getFinalStep(arena, ids) ==
    IF arena[ids[Len(ids)]].T = StepTypeConcurrent
    THEN getFinalStep(arena, arena[ids[Len(ids)]].ConcurrentSteps)
    ELSE ids[Len(ids)]

RECURSIVE getJobSetFinalJobID(_, _)

\* the final step is known: an agent step gives its job ID, a jobset step
\* the final job ID of its JobSet; 0 stands for the returned error
finalJobIDOfStep(c, finalStep) ==
    IF finalStep.T = StepTypeAgent THEN finalStep.AgentJobID
    ELSE IF finalStep.SubJobSetID \in DOMAIN c.jobSets
    THEN getJobSetFinalJobID(c, finalStep.SubJobSetID)
    ELSE 0

getJobSetFinalJobID(c, jobSetID) ==
    finalJobIDOfStep(c,
        c.jobSets[jobSetID].Steps[getFinalStep(c.jobSets[jobSetID].Steps,
                                               c.jobSets[jobSetID].TopSteps)])

\* findTopLevelStepID: the ID of the step of ids that is or contains the
\* step stepID; 0 stands for nil
RECURSIVE findTopLevelStepID(_, _, _)
findTopLevelStepID(arena, ids, stepID) ==
    IF ids = <<>> THEN 0
    ELSE IF Head(ids) = stepID THEN Head(ids)
    ELSE IF /\ arena[Head(ids)].T = StepTypeConcurrent
            /\ findTopLevelStepID(arena, arena[Head(ids)].ConcurrentSteps, stepID) # 0
    THEN Head(ids)
    ELSE findTopLevelStepID(arena, Tail(ids), stepID)

\* the priorStepID value ps that addPriorStepIDs fills in for an agent or
\* jobset step
priorStepID(step) ==
    [T |-> step.T,
     agentJobID |-> IF step.T = StepTypeAgent THEN step.AgentJobID ELSE 0,
     jobSetSubID |-> IF step.T = StepTypeJobSet THEN step.SubJobSetID ELSE 0]

\* addPriorStepIDs: the caller's slice after the call.  The function fills
\* in its local ps and returns; it appends nothing (and gets the slice by
\* value), so the caller's priorStepIDs is what it was, for every step type
addPriorStepIDs(priorStepIDs, arena, id) == priorStepIDs

\* the loop of getPriorStepIDs over the steps ids, up to curTopStep
RECURSIVE getPriorStepIDsLoop(_, _, _, _)
getPriorStepIDsLoop(arena, ids, curTopStep, priorStepIDs) ==
    IF ids = <<>> \/ Head(ids) = curTopStep THEN priorStepIDs
    ELSE getPriorStepIDsLoop(arena, Tail(ids), curTopStep,
                             addPriorStepIDs(priorStepIDs, arena, Head(ids)))

\* getPriorStepIDs: nil (no element) if the step is not found
getPriorStepIDs(arena, ids, stepID) ==
    IF findTopLevelStepID(arena, ids, stepID) = 0 THEN << >>
    ELSE getPriorStepIDsLoop(arena, ids, findTopLevelStepID(arena, ids, stepID), << >>)

\* the job whose output one prior step gives as input, and the JobSet that
\* names its directory; jobID 0 or unknown means the prior step is skipped
priorJob(c, psid, jobSetID) ==
    IF psid.T = StepTypeAgent
    THEN [jobSetID |-> jobSetID, jobID |-> psid.agentJobID]
    ELSE IF psid.jobSetSubID \in DOMAIN c.jobSets
    THEN [jobSetID |-> psid.jobSetSubID,
          jobID |-> getJobSetFinalJobID(c, psid.jobSetSubID)]
    ELSE [jobSetID |-> 0, jobID |-> 0]

\* the loop of getJobConfigForStep over priorStepIDs, from element i on
RECURSIVE jobInputs(_, _, _, _, _)
jobInputs(c, priorStepIDs, i, jobSetID, jc) ==
    IF i > Len(priorStepIDs) THEN jc
    ELSE jobInputs(c, priorStepIDs, i + 1, jobSetID,
             IF priorJob(c, priorStepIDs[i], jobSetID).jobID \in DOMAIN c.jobs
             THEN [jc EXCEPT
                     !.CodeInputs = Append(@,
                         getCodeInput(priorJob(c, priorStepIDs[i], jobSetID).jobSetID,
                                      priorJob(c, priorStepIDs[i], jobSetID).jobID,
                                      c.jobs[priorJob(c, priorStepIDs[i], jobSetID).jobID].AgentName)),
                     !.SpdxInputs = Append(@,
                         getSpdxInput(priorJob(c, priorStepIDs[i], jobSetID).jobSetID,
                                      priorJob(c, priorStepIDs[i], jobSetID).jobID,
                                      c.jobs[priorJob(c, priorStepIDs[i], jobSetID).jobID].AgentName))]
             ELSE jc)

\* getJobConfigForStep for a step of a JobSet that exists (its only caller
\* passes a step of an active JobSet)
getJobConfigForStep(c, step) ==
    jobInputs(c,
        getPriorStepIDs(c.jobSets[step.JobSetID].Steps,
                        c.jobSets[step.JobSetID].TopSteps, step.StepID),
        1, step.JobSetID,
        [CodeInputs |-> << >>,
         CodeOutputDir |-> getCodeOutputDir(step.JobSetID, step.AgentJobID, step.AgentName),
         SpdxInputs |-> << >>,
         SpdxOutputDir |-> getSpdxOutputDir(step.JobSetID, step.AgentJobID, step.AgentName),
         Jkvs |-> c.jobSets[step.JobSetID].Configs])

(***************************************************************************)
(* The scheduler pass (runScheduler).                                      *)
(*                                                                         *)
(* The pass sends on the unbuffered inJobStream, so it is cut at each      *)
(* send.  These operators give the set of possible next stopping points    *)
(* (Go ranges over c.activeJobSets in no fixed order): kind "send" is the  *)
(* pass blocked in c.inJobStream <- jr with the rest of its loops          *)
(* remembered, kind "done" is the pass returned.                           *)
(***************************************************************************)
NoJobRequest == [JobID |-> 0, AgentName |-> ""]

PassDone(c) ==
    [kind |-> "done", c |-> c, todo |-> {}, jobSetID |-> 0, ready |-> <<>>,
     jr |-> NoJobRequest]

\* the pass blocked in the send of the JobRequest for the job jobID
PassSend(c, todo, jobSetID, ready, jobID) ==
    [kind |-> "send", c |-> c, todo |-> todo, jobSetID |-> jobSetID,
     ready |-> ready,
     jr |-> [JobID |-> c.jobs[jobID].JobID, AgentName |-> c.jobs[jobID].AgentName]]

\* the job u's JobSet has bubbled: drop the job from activeJobs
deleteActiveJob(u, jobID) ==
    IF u.fatal THEN u ELSE [u EXCEPT !.activeJobs = @ \ {jobID}]

\* retireStoppedJob giving the stopped job's health to every JobSet
retireStoppedJobMarksAll(c, jobID) ==
    IF c.jobs[jobID].Status.RunStatus = STOPPED
    THEN deleteActiveJob(
             [updateJobSetStatusForJob(c, c.jobs[jobID]) EXCEPT !.jobSets =
                 [id \in DOMAIN @ |->
                     [@[id] EXCEPT !.HealthStatus = c.jobs[jobID].Status.HealthStatus]]],
             jobID)
    ELSE c

\* the body of the first loop for one active job
retireStoppedJob(c, jobID) ==
    IF c.jobs[jobID].Status.RunStatus = STOPPED
    THEN deleteActiveJob(updateJobSetStatusForJob(c, c.jobs[jobID]), jobID)
    ELSE c

MinID(ids) == CHOOSE x \in ids : \A y \in ids : x <= y

\* first loop: retire the stopped jobs, bubbling their JobSets' statuses.
\* Bubbling a JobSet reads only that JobSet's steps and its sub-JobSets'
\* statuses and the jobs' own steps never change here, so the order in which
\* Go's map iteration visits the jobs makes no difference: ascending here.
RECURSIVE retireStoppedJobs(_, _)
retireStoppedJobs(c, ids) ==
    IF ids = {} \/ c.fatal THEN c
    ELSE retireStoppedJobs(retireStoppedJob(c, MinID(ids)), ids \ {MinID(ids)})

\* second loop: retire the stopped JobSets
retireStoppedJobSets(c) ==
    IF c.fatal THEN c
    ELSE [c EXCEPT !.activeJobSets =
            { id \in @ : c.jobSets[id].RunStatus # STOPPED }]

\* lines 59-69 for one ready agent step: it gets the next job ID and is
\* now running
stepRunning(c, jobSetID, stepID) ==
    [c EXCEPT !.nextJobID = @ + 1,
              !.jobSets[jobSetID].Steps[stepID].AgentJobID = c.nextJobID,
              !.jobSets[jobSetID].Steps[stepID].RunStatus = RUNNING]

\* lines 71-90: the Job of the step readyAgent is created, with its
\* configuration, and recorded
recordJob(c, readyAgent) ==
    [c EXCEPT !.jobs = Put(@, readyAgent.AgentJobID,
                  [JobID |-> readyAgent.AgentJobID,
                   JobSetID |-> readyAgent.JobSetID,
                   JobSetStepID |-> readyAgent.StepID,
                   JobSetStepOrder |-> readyAgent.StepOrder,
                   AgentName |-> readyAgent.AgentName,
                   Cfg |-> getJobConfigForStep(c, readyAgent),
                   Status |-> StatusReport(STARTUP, OK)]),
              !.activeJobs = @ \cup {readyAgent.AgentJobID},
              !.createdJobIDs = Append(@, readyAgent.AgentJobID)]

\* lines 59-90 for one ready agent step: the Job is created and recorded
createJob(c, jobSetID, stepID) ==
    recordJob(stepRunning(c, jobSetID, stepID),
              [c.jobSets[jobSetID].Steps[stepID] EXCEPT
                  !.AgentJobID = c.nextJobID, !.RunStatus = RUNNING])

RECURSIVE runSchedulerJobSets(_, _)

\* the inner loop over readyAgentSteps, up to its next send
runSchedulerSteps(c, todo, jobSetID, ready) ==
    IF ready = <<>> THEN runSchedulerJobSets(c, todo)
    ELSE { PassSend(createJob(c, jobSetID, Head(ready)), todo, jobSetID,
                    Tail(ready), c.nextJobID) }

\* a JobSet in STARTUP that the third loop visits is now running
jobSetRunning(c, jobSetID) ==
    [c EXCEPT !.jobSets[jobSetID].RunStatus = IF @ = STARTUP THEN RUNNING ELSE @]

\* the inner loop over the steps g that getReadyStepsForJobSet returned
runSchedulerReady(g, todo, jobSetID) ==
    runSchedulerSteps(g.c, todo, jobSetID, g.readyAgentSteps)

\* the third loop, over the active JobSets still to visit
runSchedulerJobSets(c, todo) ==
    IF todo = {} THEN { PassDone(c) }
    ELSE UNION { runSchedulerReady(
                     getReadyStepsForJobSet(jobSetRunning(c, jobSetID), jobSetID),
                     todo \ {jobSetID}, jobSetID)
                 : jobSetID \in todo }

\* runSchedulerAfterSend without the capacity check after a dispatch
runSchedulerAfterSendUnchecked(c, todo, jobSetID, ready) ==
    runSchedulerSteps(c, todo, jobSetID, ready)

\* the pass once its send was received: the capacity check of line 107
runSchedulerAfterSend(c, todo, jobSetID, ready) ==
    IF Cardinality(c.activeJobs) >= maxJobsRunning THEN { PassDone(c) }
    ELSE runSchedulerSteps(c, todo, jobSetID, ready)

\* the pass once its first two loops are through: the capacity check of
\* line 44, then the third loop
runSchedulerCapacity(c) ==
    IF c.fatal \/ Cardinality(c.activeJobs) >= maxJobsRunning THEN { PassDone(c) }
    ELSE runSchedulerJobSets(c, c.activeJobSets)

\* the pass from its beginning
runScheduler(c) ==
    runSchedulerCapacity(retireStoppedJobSets(retireStoppedJobs(c, c.activeJobs)))

(***************************************************************************)
(* State.                                                                  *)
(***************************************************************************)
VARIABLES
    c,                  \* the Controller struct (see createNewJobSets above)
    loop,               \* where jobSetProcessorLoop stands
    ctxDone,            \* the Controller's context was cancelled (Stop)
    startJobSetCalls,   \* how many StartJobSet calls were made
    jd,                 \* the Job Runner's jobsData
    runner,             \* where the Job Runner's goroutine stands
    jcCtxDone,          \* the Job Runner's context was cancelled
    inJobStreamClosed,  \* the Controller closed inJobStream
    n,                  \* the Job Runner's WaitGroup counter
    rcClosed,           \* the Job Runner closed its update channel rc
    sessions            \* the Agent Sessions, by job ID

vars == << c, loop, ctxDone, startJobSetCalls, jd, runner,
           jcCtxDone, inJobStreamClosed, n, rcClosed, sessions >>

\* the first IDs the Controller hands out
InitialJobID == 1
InitialJobSetID == 1

LoopAt(pc) ==
    [pc |-> pc, pass |-> 0, todo |-> {}, jobSetID |-> 0, ready |-> <<>>,
     jr |-> NoJobRequest]

NoUpdate == [Status |-> StatusReport(STATUS_SAME, HEALTH_SAME), Err |-> FALSE]

\* the Controller after Init, the AddAgent and AddJobSetTemplate calls of the
\* set-up and a successful tryToStart; jobControllers, inJobSetStreams and
\* processorLoops count the Job Runners, request channels and event loops
\* that tryToStart has made; errorMsg is the sequence of the messages
\* appended to the Controller's error message, each named by its origin
StartedController ==
    [ openForJobSetRequests |-> TRUE,
      runStatus |-> STATUS_SAME,
      healthStatus |-> HEALTH_SAME,
      agents |-> RegisteredAgents,
      jobs |-> <<>>,
      activeJobs |-> {},
      nextJobID |-> InitialJobID,
      jobSets |-> <<>>,
      activeJobSets |-> {},
      nextJobSetID |-> InitialJobSetID,
      pendingJSRs |-> <<>>,
      jobSetTemplates |-> InitialTemplates,
      errorMsg |-> <<>>,
      fatal |-> FALSE,
      createdJobSetIDs |-> <<>>,
      createdJobIDs |-> <<>>,
      jobControllers |-> 1,
      inJobSetStreams |-> 1,
      processorLoops |-> 1 ]

\* the Job Runner as JobController leaves it: no job, its own counter at 1,
\* its goroutine in the select and the WaitGroup holding the Runner's own 1
RunnerInit ==
    /\ jd = [ cfg |-> [Agents |-> RegisteredAgents], jobs |-> <<>>, nextJobID |-> 1 ]
    /\ runner = [ pc |-> "select", jobID |-> 0 ]
    /\ jcCtxDone = FALSE
    /\ inJobStreamClosed = FALSE
    /\ n = 1
    /\ rcClosed = FALSE
    /\ sessions = <<>>

\* the state right after a successful Start (tryToStart): the Job Runner is
\* running and the event loop waits in its select
Init ==
    /\ c = StartedController
    /\ loop = LoopAt("select")
    /\ ctxDone = FALSE
    /\ startJobSetCalls = 0
    /\ RunnerInit

\* log.Fatalf ends the whole process: no goroutine takes another step
Alive == ~c.fatal

(***************************************************************************)
(* The event loop (jobSetProcessorLoop).                                   *)
(***************************************************************************)
AtSend(o, pass) ==
    [pc |-> "send", pass |-> pass, todo |-> o.todo, jobSetID |-> o.jobSetID,
     ready |-> o.ready, jr |-> o.jr]

\* the loop once a pass returned with the Controller as c1
LoopSelect(c1) ==
    [c |-> c1, loop |-> IF c1.fatal THEN LoopAt("fatal") ELSE LoopAt("select")]

\* where the stopping point o of a pass leaves the loop, the pass being the
\* last one of the iteration
AfterPass(o, pass) ==
    IF o.kind = "send" THEN [c |-> o.c, loop |-> AtSend(o, pass)]
    ELSE LoopSelect(o.c)

\* what follows the first scheduler pass of an iteration: the check of the
\* Controller's runStatus and, if it is not exiting, the second pass
AfterFirstPass(c1) ==
    IF c1.fatal THEN { LoopSelect(c1) }
    ELSE IF c1.runStatus = STOPPED THEN { [c |-> c1, loop |-> LoopAt("exiting")] }
    ELSE { AfterPass(o, 2) : o \in runScheduler(c1) }

\* where the loop stands next, for the stopping points outs of a pass
LoopAfter(outs, pass) ==
    UNION { IF o.kind = "send" \/ pass = 2 THEN { AfterPass(o, pass) }
            ELSE AfterFirstPass(o.c)
            : o \in outs }

\* the end of the loop: refuse new requests, close the channels to the Job
\* Runner and cancel it
LoopExit(c1) ==
    /\ c' = [c1 EXCEPT !.openForJobSetRequests = FALSE]
    /\ loop' = LoopAt("exited")
    /\ inJobStreamClosed' = TRUE
    /\ jcCtxDone' = TRUE

\* take the loop to the stopping point r
LoopGoes(r) ==
    IF r.loop.pc = "exiting"
    THEN LoopExit(r.c)
    ELSE /\ c' = r.c
         /\ loop' = r.loop
         /\ UNCHANGED << inJobStreamClosed, jcCtxDone >>

\* case jsr := <-c.inJobSetStream, for the request jsr that a StartJobSet
\* call is sending, c0 being the Controller as the call left it
LoopJobSetRequest(c0, jsr) ==
    /\ loop.pc = "select"
    /\ \E r \in LoopAfter(
                  runScheduler(createNewJobSets(
                      [c0 EXCEPT !.pendingJSRs = Append(@, jsr)])), 1) :
          LoopGoes(r)
    /\ UNCHANGED << ctxDone, jd, runner, n, rcClosed, sessions >>

\* case jr := <-c.jobRecordStream: the Job Runner's publish is received
LoopJobRecord ==
    /\ Alive
    /\ loop.pc = "select"
    /\ runner.pc = "publish"
    /\ runner' = [pc |-> "select", jobID |-> 0]
    /\ \E r \in LoopAfter(runScheduler(updateJobStatus(c, jd.jobs[runner.jobID])), 1) :
          LoopGoes(r)
    /\ UNCHANGED << ctxDone, startJobSetCalls, jd, n, rcClosed, sessions >>

\* case <-ctx.Done()
LoopCtxDone ==
    /\ Alive
    /\ loop.pc = "select"
    /\ ctxDone
    /\ LoopExit(c)
    /\ UNCHANGED << ctxDone, startJobSetCalls, jd, runner, n, rcClosed, sessions >>

\* lines 309-312: the Controller's health is ERROR and the error's text is
\* appended to its error message
runnerError(c1) ==
    [c1 EXCEPT !.healthStatus = ERROR, !.errorMsg = Append(@, "errc")]

\* the loop after case err := <-c.errc going on as after any other event
LoopAfterErrorGoesOn(c1) == AfterFirstPass(c1)

\* what follows case err := <-c.errc: exiting is true, so no scheduler
\* pass is run and the loop ends
LoopAfterError(c1) == { [c |-> c1, loop |-> LoopAt("exiting")] }

\* case err := <-c.errc.  The JobController's interface says that an error
\* will be written to errc; the JobController under src/ never writes one,
\* so the error is an input of the environment and the action is part of
\* SpecErrc only
LoopErrc ==
    /\ Alive
    /\ loop.pc = "select"
    /\ \E r \in LoopAfterError(runnerError(c)) : LoopGoes(r)
    /\ UNCHANGED << ctxDone, startJobSetCalls, jd, runner, n, rcClosed, sessions >>

(***************************************************************************)
(* The operator's calls.                                                   *)
(***************************************************************************)
\* StartJobSet: validate, allocate the JobSet ID and send the request on the
\* unbuffered inJobSetStream, where the event loop receives it
StartJobSet(templateName, configs) ==
    /\ Alive
    /\ startJobSetCalls < MaxStartJobSet
    /\ c.openForJobSetRequests
    /\ templateName \in c.jobSetTemplates
    /\ startJobSetCalls' = startJobSetCalls + 1
    /\ LoopJobSetRequest([c EXCEPT !.nextJobSetID = @ + 1],
                         JobSetRequest(templateName, configs, 0, 0, c.nextJobSetID))

\* AddJobSetTemplate: register a template whose name is still free.  It
\* takes the write lock, which a scheduler pass blocked in its send holds
AddJobSetTemplate(name) ==
    /\ Alive
    /\ loop.pc # "send"
    /\ name \notin c.jobSetTemplates
    /\ c' = [c EXCEPT !.jobSetTemplates = @ \cup {name}]
    /\ UNCHANGED << loop, ctxDone, startJobSetCalls, jd, runner,
                    jcCtxDone, inJobStreamClosed, n, rcClosed, sessions >>

\* Stop: cancel the event loop's context
Stop ==
    /\ Alive
    /\ ~ctxDone
    /\ ctxDone' = TRUE
    /\ UNCHANGED << c, loop, startJobSetCalls, jd, runner,
                    jcCtxDone, inJobStreamClosed, n, rcClosed, sessions >>

(***************************************************************************)
(* The Job Runner (JobController) and the Agent Sessions (runJobAgent).    *)
(***************************************************************************)
\* getErrorUpdate
getErrorUpdate == [Status |-> StatusReport(STOPPED, ERROR), Err |-> TRUE]

\* a Session: where it stands, the JobUpdate it is sending on rc, how many
\* StatusReports it received and, as history, the way it left ("error",
\* "eof") and whether an update with RunStatus STOPPED of it was received
NewSession ==
    [pc |-> "start", upd |-> NoUpdate, reports |-> 0, path |-> "",
     sentStopped |-> FALSE]

\* startNewJob: the new jobsData, the new job's ID and whether a Session is
\* spawned for it
startNewJob(d, jr) ==
    LET rec == [JobID |-> d.nextJobID, AgentName |-> jr.AgentName,
                Status |-> StatusReport(STARTUP, OK), Err |-> FALSE]
        ok == rec.AgentName \in d.cfg.Agents
    IN  [jd |-> [d EXCEPT !.jobs = Put(@, rec.JobID, IF ok THEN rec
                                                      ELSE [rec EXCEPT !.Err = TRUE]),
                          !.nextJobID = @ + 1],
         newJobID |-> rec.JobID,
         spawn |-> ok]

\* updateJobRecord without a JobUpdate (ju is nil): the record of jobID is
\* broadcast as it is, if there is one
broadcastJobRecord(d, jobID) ==
    [jd |-> d, publish |-> jobID \in DOMAIN d.jobs]

\* updateJobRecord broadcasting the record without storing the update
updateJobRecordUnchanged(d, jobID, ju) == broadcastJobRecord(d, jobID)

\* updateJobRecord with a JobUpdate: the record takes the update's status
\* and error; whether the record is then broadcast
updateJobRecord(d, jobID, ju) ==
    IF jobID \notin DOMAIN d.jobs
    THEN [jd |-> d, publish |-> FALSE]
    ELSE [jd |-> [d EXCEPT !.jobs[jobID].Status = ju.Status,
                           !.jobs[jobID].Err = ju.Err],
          publish |-> TRUE]

\* the Job Runner receives the JobRequest jr: the job is started and the
\* Runner goes on to broadcast its record
RunnerStarts(jr) ==
    LET s == startNewJob(jd, jr)
    IN  /\ jd' = s.jd
        /\ runner' = [pc |-> "publish", jobID |-> s.newJobID]
        /\ n' = IF s.spawn THEN n + 1 ELSE n
        /\ sessions' = IF s.spawn THEN Put(sessions, s.newJobID, NewSession)
                       ELSE sessions

\* case jr := <-inJobStream, with jr the JobRequest the scheduler pass is
\* sending: the job is started and its record broadcast; the pass goes on
RunnerJobRequest ==
    /\ Alive
    /\ runner.pc = "select"
    /\ loop.pc = "send"
    /\ RunnerStarts(loop.jr)
    /\ \E r \in LoopAfter(runSchedulerAfterSend(c, loop.todo, loop.jobSetID, loop.ready),
                          loop.pass) : LoopGoes(r)
    /\ UNCHANGED << ctxDone, startJobSetCalls, rcClosed >>

\* case jr := <-inJobStream once the Controller closed the channel: the
\* receive yields the zero JobRequest
RunnerClosedJobStream ==
    /\ Alive
    /\ runner.pc = "select"
    /\ inJobStreamClosed
    /\ RunnerStarts(NoJobRequest)
    /\ UNCHANGED << c, loop, ctxDone, startJobSetCalls, jcCtxDone,
                    inJobStreamClosed, rcClosed >>

\* the Session once its send on rc was received: the listener goes on
\* receiving, or the Session returns if the update was its error update
SessionAfterSend(s) ==
    [s EXCEPT !.pc = IF s.upd.Err THEN "done" ELSE "recv",
              !.upd = NoUpdate,
              !.sentStopped = @ \/ s.upd.Status.RunStatus = STOPPED]

\* case ju := <-rc: a Session's update is received, stored and broadcast
RunnerUpdate(id) ==
    /\ Alive
    /\ runner.pc = "select"
    /\ sessions[id].pc = "send"
    /\ LET u == updateJobRecord(jd, id, sessions[id].upd)
       IN  /\ jd' = u.jd
           /\ runner' = IF u.publish THEN [pc |-> "publish", jobID |-> id]
                        ELSE runner
    /\ sessions' = [sessions EXCEPT ![id] = SessionAfterSend(@)]
    /\ n' = IF sessions[id].upd.Err THEN n - 1 ELSE n
    /\ UNCHANGED << c, loop, ctxDone, startJobSetCalls, jcCtxDone,
                    inJobStreamClosed, rcClosed >>

\* case <-ctx.Done(): the Job Runner's loop ends
RunnerCtxDone ==
    /\ Alive
    /\ runner.pc = "select"
    /\ jcCtxDone
    /\ runner' = [pc |-> "exited", jobID |-> 0]
    /\ n' = n - 1
    /\ UNCHANGED << c, loop, ctxDone, startJobSetCalls, jd, jcCtxDone,
                    inJobStreamClosed, rcClosed, sessions >>

\* the closing goroutine closing rc without waiting for the WaitGroup
RunnerCloseRcNoWait ==
    /\ Alive
    /\ ~rcClosed
    /\ rcClosed' = TRUE
    /\ UNCHANGED << c, loop, ctxDone, startJobSetCalls, jd, runner,
                    jcCtxDone, inJobStreamClosed, n, sessions >>

\* the goroutine that waits for the WaitGroup and closes rc
RunnerCloseRc ==
    /\ Alive
    /\ n = 0
    /\ ~rcClosed
    /\ rcClosed' = TRUE
    /\ UNCHANGED << c, loop, ctxDone, startJobSetCalls, jd, runner,
                    jcCtxDone, inJobStreamClosed, n, sessions >>

SessionStep(id, s) ==
    /\ sessions' = [sessions EXCEPT ![id] = s]
    /\ UNCHANGED << c, loop, ctxDone, startJobSetCalls, jd, runner,
                    jcCtxDone, inJobStreamClosed, rcClosed >>

\* grpc.Dial, NewJob or the Send of the Start message fails: the Session
\* sends its error update and returns
SessionStartFails(id) ==
    /\ Alive
    /\ sessions[id].pc = "start"
    /\ SessionStep(id, [sessions[id] EXCEPT !.pc = "send", !.upd = getErrorUpdate,
                                            !.path = "error"])
    /\ UNCHANGED n

\* the Start message was sent: the listener goroutine receives from now on
SessionStarted(id) ==
    /\ Alive
    /\ sessions[id].pc = "start"
    /\ SessionStep(id, [sessions[id] EXCEPT !.pc = "recv"])
    /\ UNCHANGED n

\* stream.Recv yields the StatusReport st, which the Session forwards on rc
SessionForwards(id, st) ==
    /\ Alive
    /\ sessions[id].pc = "recv"
    /\ SessionStep(id, [sessions[id] EXCEPT !.pc = "send",
                                            !.upd = [Status |-> st, Err |-> FALSE],
                                            !.reports = @ + 1])
    /\ UNCHANGED n

\* an agent sends any of the StatusReports, at most MaxReports of them
SessionReport(id, st) ==
    /\ sessions[id].reports < MaxReports
    /\ SessionForwards(id, st)

\* stream.Recv yields io.EOF: the Session closes its side and returns
SessionEOF(id) ==
    /\ Alive
    /\ sessions[id].pc = "recv"
    /\ SessionStep(id, [sessions[id] EXCEPT !.pc = "done", !.path = "eof"])
    /\ n' = n - 1

\* stream.Recv yields another error: the Session sends its error update
SessionRecvError(id) ==
    /\ Alive
    /\ sessions[id].pc = "recv"
    /\ SessionStep(id, [sessions[id] EXCEPT !.pc = "send", !.upd = getErrorUpdate,
                                            !.path = "error"])
    /\ UNCHANGED n

Next ==
    \/ \E t \in DOMAIN TemplateSteps, cfg \in ConfigChoices : StartJobSet(t, cfg)
    \/ \E t \in LateTemplates : AddJobSetTemplate(t)
    \/ Stop
    \/ LoopJobRecord
    \/ LoopCtxDone
    \/ RunnerJobRequest
    \/ RunnerClosedJobStream
    \/ \E id \in DOMAIN sessions : RunnerUpdate(id)
    \/ RunnerCtxDone
    \/ RunnerCloseRc
    \/ \E id \in DOMAIN sessions : SessionStartFails(id)
    \/ \E id \in DOMAIN sessions : SessionStarted(id)
    \/ \E id \in DOMAIN sessions, st \in AgentReports : SessionReport(id, st)
    \/ \E id \in DOMAIN sessions : SessionEOF(id)
    \/ \E id \in DOMAIN sessions : SessionRecvError(id)

Spec == Init /\ [][Next]_vars

(***************************************************************************)
(* The happy path of one template with the agent steps A, B: every agent   *)
(* reports RUNNING/OK, then STOPPED/OK, then closes its stream; nothing     *)
(* fails and nobody cancels.                                               *)
(***************************************************************************)
HappyTemplate == "AB"

HappyReports == << StatusReport(RUNNING, OK), StatusReport(STOPPED, OK) >>

\* the agent sends its next report
HappyReport(id) ==
    /\ sessions[id].reports < Len(HappyReports)
    /\ SessionForwards(id, HappyReports[sessions[id].reports + 1])

\* the agent closes its stream after its last report
HappyEOF(id) ==
    /\ sessions[id].reports = Len(HappyReports)
    /\ SessionEOF(id)

HappyNext ==
    \/ \E cfg \in ConfigChoices : StartJobSet(HappyTemplate, cfg)
    \/ LoopJobRecord
    \/ RunnerJobRequest
    \/ \E id \in DOMAIN sessions : RunnerUpdate(id)
    \/ \E id \in DOMAIN sessions : SessionStarted(id)
    \/ \E id \in DOMAIN sessions : HappyReport(id)
    \/ \E id \in DOMAIN sessions : HappyEOF(id)

SpecHappy == Init /\ [][HappyNext]_vars

(***************************************************************************)
(* The happy path with an error arriving on errc at any time.              *)
(***************************************************************************)
ErrcNext == HappyNext \/ LoopErrc

SpecErrc == Init /\ [][ErrcNext]_vars

(***************************************************************************)
(* The happy path with agents that send a report without change, SAME /    *)
(* SAME, between RUNNING/OK and STOPPED/OK.                                *)
(***************************************************************************)
SameReports ==
    << StatusReport(RUNNING, OK), StatusReport(STATUS_SAME, HEALTH_SAME),
       StatusReport(STOPPED, OK) >>

\* the agent sends its next report
SameReport(id) ==
    /\ sessions[id].reports < Len(SameReports)
    /\ SessionForwards(id, SameReports[sessions[id].reports + 1])

\* the agent closes its stream after its last report
SameEOF(id) ==
    /\ sessions[id].reports = Len(SameReports)
    /\ SessionEOF(id)

SameNext ==
    \/ \E cfg \in ConfigChoices : StartJobSet(HappyTemplate, cfg)
    \/ LoopJobRecord
    \/ RunnerJobRequest
    \/ \E id \in DOMAIN sessions : RunnerUpdate(id)
    \/ \E id \in DOMAIN sessions : SessionStarted(id)
    \/ \E id \in DOMAIN sessions : SameReport(id)
    \/ \E id \in DOMAIN sessions : SameEOF(id)

SpecSame == Init /\ [][SameNext]_vars

(***************************************************************************)
(* The happy path with a template without steps registered before Start:   *)
(* AddJobSetTemplate takes any step list, the empty one included.          *)
(***************************************************************************)
EmptyTemplate == "Empty"

EmptyInit ==
    /\ c = [StartedController EXCEPT !.jobSetTemplates = @ \cup {EmptyTemplate}]
    /\ loop = LoopAt("select")
    /\ ctxDone = FALSE
    /\ startJobSetCalls = 0
    /\ RunnerInit

EmptyNext ==
    \/ \E t \in {EmptyTemplate, HappyTemplate}, cfg \in ConfigChoices : StartJobSet(t, cfg)
    \/ LoopJobRecord
    \/ RunnerJobRequest
    \/ \E id \in DOMAIN sessions : RunnerUpdate(id)
    \/ \E id \in DOMAIN sessions : SessionStarted(id)
    \/ \E id \in DOMAIN sessions : HappyReport(id)
    \/ \E id \in DOMAIN sessions : HappyEOF(id)

SpecEmpty == EmptyInit /\ [][EmptyNext]_vars

(***************************************************************************)
(* The happy path of a template with an agent step and a jobset step whose *)
(* template is not registered: AddJobSetTemplate does not look at the      *)
(* template names inside the steps.                                        *)
(***************************************************************************)
MixedTemplate == "Mixed"

MixedInit ==
    /\ c = [StartedController EXCEPT !.jobSetTemplates = @ \cup {MixedTemplate}]
    /\ loop = LoopAt("select")
    /\ ctxDone = FALSE
    /\ startJobSetCalls = 0
    /\ RunnerInit

MixedNext ==
    \/ \E cfg \in ConfigChoices : StartJobSet(MixedTemplate, cfg)
    \/ LoopJobRecord
    \/ RunnerJobRequest
    \/ \E id \in DOMAIN sessions : RunnerUpdate(id)
    \/ \E id \in DOMAIN sessions : SessionStarted(id)
    \/ \E id \in DOMAIN sessions : HappyReport(id)
    \/ \E id \in DOMAIN sessions : HappyEOF(id)

SpecMixed == MixedInit /\ [][MixedNext]_vars

(***************************************************************************)
(* Status bubbling on its own: updateJobSetStatusForJob applied to JobSets *)
(* whose steps hold any persisted status.                                  *)
(***************************************************************************)
BubbleTemplates == {"CC", "Outer"}

\* the statuses a step or JobSet can hold (the SAME values are never stored)
BubbleStatuses ==
    { StatusReport(run, health) : run \in {STARTUP, RUNNING, STOPPED},
                                  health \in {OK, DEGRADED, ERROR} }

\* the step with the status st
StepWithStatus(step, st) ==
    [step EXCEPT !.RunStatus = st.RunStatus, !.HealthStatus = st.HealthStatus]

\* the Controller c0 with the steps of JobSet 1 holding the statuses f and
\* every other JobSet the status g
WithStatuses(c0, f, g) ==
    [c0 EXCEPT !.jobSets =
        [id \in DOMAIN c0.jobSets |->
            IF id = InitialJobSetID
            THEN [c0.jobSets[id] EXCEPT !.Steps =
                    [k \in DOMAIN c0.jobSets[id].Steps |->
                        StepWithStatus(c0.jobSets[id].Steps[k], f[k])]]
            ELSE StepWithStatus(c0.jobSets[id], g)]]

\* the Controller once createNewJobSets made JobSet 1 from template t,
\* and with it the JobSets of its jobset steps
Instantiated(t) ==
    createNewJobSets([StartedController EXCEPT
        !.nextJobSetID = InitialJobSetID + 1,
        !.pendingJSRs = << JobSetRequest(t, "cfg1", 0, 0, InitialJobSetID) >>])

BubbleInit ==
    /\ \E t \in BubbleTemplates :
         \E f \in [DOMAIN Instantiated(t).jobSets[InitialJobSetID].Steps
                     -> BubbleStatuses],
            g \in BubbleStatuses :
              c = WithStatuses(Instantiated(t), f, g)
    /\ loop = LoopAt("bubble")
    /\ ctxDone = FALSE
    /\ startJobSetCalls = 0
    /\ RunnerInit

\* updateJobSetStatusForJob for a job of the JobSet jobSetID
BubbleJobSet(jobSetID) ==
    /\ loop.pc = "bubble"
    /\ c' = updateJobSetStatusForJob(c, [JobSetID |-> jobSetID])
    /\ loop' = [LoopAt("bubbled") EXCEPT !.jobSetID = jobSetID]
    /\ UNCHANGED << ctxDone, startJobSetCalls, jd, runner,
                    jcCtxDone, inJobStreamClosed, n, rcClosed, sessions >>

BubbleNext == \E jobSetID \in DOMAIN c.jobSets : BubbleJobSet(jobSetID)

SpecBubble == BubbleInit /\ [][BubbleNext]_vars

(***************************************************************************)
(* Job configuration on its own: Jobs are created for the agent steps of   *)
(* two JobSets in the order of their steps, each by the scheduler's        *)
(* createJob, whatever the steps' statuses.                                *)
(***************************************************************************)
ConfigTemplates == {"AB", "CC", "Outer"}

\* the elements of the sequence s
SeqToSet(s) == { s[i] : i \in 1..Len(s) }

\* the i-th top-level step of the JobSet js
TopStep(js, i) == js.Steps[js.TopSteps[i]]

\* the steps ids of the arena and every step below them
RECURSIVE StepsInside(_, _)
StepsInside(arena, ids) ==
    IF ids = <<>> THEN {}
    ELSE {Head(ids)} \cup StepsInside(arena, arena[Head(ids)].ConcurrentSteps)
                     \cup StepsInside(arena, Tail(ids))

\* the steps of the JobSet js at or below the top-level steps that precede
\* the one holding the step k
PriorSteps(js, k) ==
    UNION { StepsInside(js.Steps, << js.TopSteps[i] >>) :
              i \in { i \in 1..Len(js.TopSteps) :
                        \E j \in (i + 1)..Len(js.TopSteps) :
                            k \in StepsInside(js.Steps, << js.TopSteps[j] >>) } }

\* every agent step of the JobSet jobSetID has a Job
AllDispatched(c0, jobSetID) ==
    /\ jobSetID \in DOMAIN c0.jobSets
    /\ \A k \in DOMAIN c0.jobSets[jobSetID].Steps :
          c0.jobSets[jobSetID].Steps[k].T = StepTypeAgent =>
              c0.jobSets[jobSetID].Steps[k].AgentJobID # 0

\* every step before the step k of the JobSet js has its Job or its
\* sub-JobSet's Jobs
PriorDispatched(c0, js, k) ==
    \A p \in PriorSteps(js, k) :
        /\ js.Steps[p].T = StepTypeAgent => js.Steps[p].AgentJobID # 0
        /\ js.Steps[p].T = StepTypeJobSet => AllDispatched(c0, js.Steps[p].SubJobSetID)

\* the Controller once createNewJobSets made JobSets 1 and 2 from the
\* templates t1 and t2, and with them the JobSets of their jobset steps
InstantiatedBoth(t1, t2) ==
    createNewJobSets([StartedController EXCEPT
        !.nextJobSetID = InitialJobSetID + 2,
        !.pendingJSRs = << JobSetRequest(t1, "cfg1", 0, 0, InitialJobSetID),
                           JobSetRequest(t2, "cfg1", 0, 0, InitialJobSetID + 1) >>])

ConfigInit ==
    /\ \E t1, t2 \in ConfigTemplates : c = InstantiatedBoth(t1, t2)
    /\ loop = LoopAt("config")
    /\ ctxDone = FALSE
    /\ startJobSetCalls = 0
    /\ RunnerInit

\* createJob for the agent step stepID of the JobSet jobSetID
ConfigJob(jobSetID, stepID) ==
    /\ loop.pc = "config"
    /\ c.jobSets[jobSetID].Steps[stepID].T = StepTypeAgent
    /\ c.jobSets[jobSetID].Steps[stepID].AgentJobID = 0
    /\ PriorDispatched(c, c.jobSets[jobSetID], stepID)
    /\ c' = createJob(c, jobSetID, stepID)
    /\ UNCHANGED << loop, ctxDone, startJobSetCalls, jd, runner,
                    jcCtxDone, inJobStreamClosed, n, rcClosed, sessions >>

ConfigNext ==
    \E jobSetID \in DOMAIN c.jobSets :
        \E stepID \in DOMAIN c.jobSets[jobSetID].Steps : ConfigJob(jobSetID, stepID)

SpecConfig == ConfigInit /\ [][ConfigNext]_vars

(***************************************************************************)
(* The set-up calls on their own: AddAgent, AddJobSetTemplate and Start on *)
(* a Controller that Init has configured.                                  *)
(***************************************************************************)
\* the Controller before any AddAgent, AddJobSetTemplate or Start
NewController ==
    [StartedController EXCEPT !.openForJobSetRequests = FALSE,
                              !.agents = {},
                              !.jobSetTemplates = {},
                              !.jobControllers = 0,
                              !.inJobSetStreams = 0,
                              !.processorLoops = 0]

StartInit ==
    /\ c = NewController
    /\ loop = LoopAt("none")
    /\ ctxDone = FALSE
    /\ startJobSetCalls = 0
    /\ jd = [ cfg |-> [Agents |-> {}], jobs |-> <<>>, nextJobID |-> 1 ]
    /\ runner = [ pc |-> "none", jobID |-> 0 ]
    /\ jcCtxDone = FALSE
    /\ inJobStreamClosed = FALSE
    /\ n = 0
    /\ rcClosed = FALSE
    /\ sessions = <<>>

\* AddAgent: register an agent whose name is still free
AddAgent(name) ==
    /\ Alive
    /\ loop.pc # "send"
    /\ name \notin c.agents
    /\ c' = [c EXCEPT !.agents = @ \cup {name}]
    /\ UNCHANGED << loop, ctxDone, startJobSetCalls, jd, runner,
                    jcCtxDone, inJobStreamClosed, n, rcClosed, sessions >>

\* tryToStart with agents defined: a Job Runner, a request channel, a
\* pending list and an event loop are made and take the place of any the
\* Controller had
tryToStart(c0) ==
    [c0 EXCEPT !.jobControllers = @ + 1,
               !.inJobSetStreams = @ + 1,
               !.openForJobSetRequests = TRUE,
               !.pendingJSRs = << >>,
               !.processorLoops = @ + 1]

\* Start: tryToStart returns an error if no agent is defined (the state is
\* left as it is) and starts the Controller otherwise
Start ==
    /\ Alive
    /\ loop.pc # "send"
    /\ c.agents # {}
    /\ c.processorLoops < MaxStart
    /\ c' = tryToStart(c)
    /\ jd' = [ cfg |-> [Agents |-> c.agents], jobs |-> <<>>, nextJobID |-> 1 ]
    /\ runner' = [ pc |-> "select", jobID |-> 0 ]
    /\ n' = 1
    /\ loop' = LoopAt("select")
    /\ UNCHANGED << ctxDone, startJobSetCalls, jcCtxDone, inJobStreamClosed,
                    rcClosed, sessions >>

StartNext ==
    \/ \E name \in RegisteredAgents : AddAgent(name)
    \/ \E name \in DOMAIN TemplateSteps : AddJobSetTemplate(name)
    \/ Start

SpecStart == StartInit /\ [][StartNext]_vars

(***************************************************************************)
(* The happy path with Start called once more while the Controller runs    *)
(* (tryToStart does not test whether it has started before).  The call is  *)
(* taken at a quiet moment only: the event loop and the Job Runner wait in *)
(* their selects and every Session has returned.  The first Job Runner and *)
(* the first loop then wait for ever on channels that nobody else holds    *)
(* any more, and loop, jd, runner, n stand for the second ones from here.  *)
(***************************************************************************)
Quiet ==
    /\ loop.pc = "select"
    /\ runner.pc = "select"
    /\ \A id \in DOMAIN sessions : sessions[id].pc = "done"

Restart ==
    /\ Quiet
    /\ c.jobs # << >>
    /\ Start

RestartNext == HappyNext \/ Restart

SpecRestart == Init /\ [][RestartNext]_vars

(***************************************************************************)
(* Properties.                                                             *)
(***************************************************************************)
\* the event loop and the Job Runner both wait in their selects
Idle == Alive /\ loop.pc = "select" /\ runner.pc = "select"

\* C1: the number of entries in activeJobs is at most maxJobsRunning, in
\* every state, so in particular whenever a scheduler pass has completed
C1_ActiveJobsWithinLimit == Cardinality(c.activeJobs) <= maxJobsRunning

\* a pass completed with activeJobs full and a ready step of a concurrent
\* step left undispatched
C1_Witness ==
    /\ loop.pc = "select"
    /\ Cardinality(c.activeJobs) = maxJobsRunning
    /\ \E id \in DOMAIN c.jobSets : \E k \in DOMAIN c.jobSets[id].Steps :
          /\ c.jobSets[id].Steps[k].T = StepTypeConcurrent
          /\ \E a, b \in SeqToSet(c.jobSets[id].Steps[k].ConcurrentSteps) :
                /\ c.jobSets[id].Steps[a].AgentJobID # 0
                /\ c.jobSets[id].Steps[b].AgentJobID = 0
                /\ c.jobSets[id].Steps[b].RunStatus = STARTUP

\* C2: in every JobSet, an agent step that is a top-level step t or lies
\* inside t has a Job only if every top-level step s before t is STOPPED
\* with a health other than ERROR
C2_LaterStepsWait ==
    \A id \in DOMAIN c.jobSets :
      \A i, j \in 1..Len(c.jobSets[id].TopSteps) :
        i < j =>
          \A t \in StepsInside(c.jobSets[id].Steps, << c.jobSets[id].TopSteps[j] >>) :
            c.jobSets[id].Steps[t].AgentJobID # 0 =>
              /\ TopStep(c.jobSets[id], i).RunStatus = STOPPED
              /\ TopStep(c.jobSets[id], i).HealthStatus # ERROR

\* the Job of the first step of an [A, B] JobSet is running and the pass
\* that saw it returned without a Job for B
C2_Witness ==
    /\ loop.pc = "select"
    /\ \E id \in DOMAIN c.jobSets :
          /\ c.jobSets[id].TemplateName = "AB"
          /\ Len(c.jobSets[id].TopSteps) = 2
          /\ TopStep(c.jobSets[id], 1).AgentJobID \in DOMAIN c.jobs
          /\ c.jobs[TopStep(c.jobSets[id], 1).AgentJobID].Status.RunStatus = RUNNING
          /\ TopStep(c.jobSets[id], 2).AgentJobID = 0

\* every step of the JobSet js has a Job that is STOPPED
AllJobsStopped(js) ==
    \A i \in 1..Len(js.TopSteps) :
        /\ TopStep(js, i).AgentJobID \in DOMAIN c.jobs
        /\ c.jobs[TopStep(js, i).AgentJobID].Status.RunStatus = STOPPED

\* C3: on the happy path of template [A, B], once nothing is left to do
\* (the loop and the Runner wait, every Session has returned) a Job for A
\* and a Job for B were dispatched and are STOPPED and the JobSet is
\* STOPPED with health OK
C3_HappyPathCompletes ==
    (Idle /\ \A id \in DOMAIN sessions : sessions[id].pc = "done") =>
        \A id \in DOMAIN c.jobSets :
            /\ c.jobSets[id].RunStatus = STOPPED
            /\ c.jobSets[id].HealthStatus = OK
            /\ AllJobsStopped(c.jobSets[id])

\* C4: every Job whose JobRequest the Job Runner received has a STOPPED
\* status in the Controller once its Session has returned (or none was
\* started) and no record is under way, unless the Controller was cancelled
C4_EveryJobStops ==
    (Idle /\ ~ctxDone) =>
        \A id \in DOMAIN c.jobs :
            (id \in DOMAIN sessions => sessions[id].pc = "done") =>
                c.jobs[id].Status.RunStatus = STOPPED

\* C5: a Session that has returned has sent an update with RunStatus
\* STOPPED on rc
C5_SessionSentStopped ==
    \A id \in DOMAIN sessions : sessions[id].pc = "done" => sessions[id].sentStopped

\* C6: a JobSet ID under which a STOPPED JobSet is stored holds a STOPPED
\* JobSet after every step
C6_StoppedIsFinal ==
    [][\A id \in DOMAIN c.jobSets :
          c.jobSets[id].RunStatus = STOPPED =>
              /\ id \in DOMAIN c'.jobSets
              /\ c'.jobSets[id].RunStatus = STOPPED]_vars

\* a STOPPED JobSet was retired and JobSets were created after it
C6_Witness ==
    \E id, later \in DOMAIN c.jobSets :
        /\ c.jobSets[id].RunStatus = STOPPED
        /\ id \notin c.activeJobSets
        /\ later > id
        /\ c.jobSets[later].RunStatus # STOPPED

StrictlyIncreasing(s) == \A i, j \in 1..Len(s) : i < j => s[i] < s[j]

\* C7: the IDs under which Jobs were created, and those under which JobSets
\* were created, are strictly increasing in creation order: none is reused
C7_IDsNeverReused ==
    /\ StrictlyIncreasing(c.createdJobIDs)
    /\ StrictlyIncreasing(c.createdJobSetIDs)

\* C8: a jobset step with a non-zero SubJobSetID names a JobSet of jobSets
\* that was made from a request pointing back at the step
C8_SubJobSetPointsBack ==
    \A id \in DOMAIN c.jobSets : \A k \in DOMAIN c.jobSets[id].Steps :
        (/\ c.jobSets[id].Steps[k].T = StepTypeJobSet
         /\ c.jobSets[id].Steps[k].SubJobSetID # 0) =>
            /\ c.jobSets[id].Steps[k].SubJobSetID \in DOMAIN c.jobSets
            /\ c.jobSets[c.jobSets[id].Steps[k].SubJobSetID].ParentJobSetID
                   = c.jobSets[id].Steps[k].JobSetID
            /\ c.jobSets[c.jobSets[id].Steps[k].SubJobSetID].ParentJobStepID
                   = c.jobSets[id].Steps[k].StepID

\* a jobset step has learnt the ID of its sub-JobSet
C8_Witness ==
    \E id \in DOMAIN c.jobSets : \E k \in DOMAIN c.jobSets[id].Steps :
        /\ c.jobSets[id].Steps[k].T = StepTypeJobSet
        /\ c.jobSets[id].Steps[k].SubJobSetID # 0
        /\ c.jobSets[id].Steps[k].JobSetID = id

\* C9: once updateJobSetStatusForJob ran for a JobSet, running it again for
\* that JobSet changes no status of the JobSet or of any step
C9_BubblingIdempotent ==
    loop.pc = "bubbled" =>
        updateJobSetStatusForJob(c, [JobSetID |-> loop.jobSetID]) = c

\* bubbling took a JobSet from STARTUP/OK to STOPPED/DEGRADED
C9_Witness ==
    /\ loop.pc = "bubbled"
    /\ ~c.fatal
    /\ c.jobSets[loop.jobSetID].RunStatus = STOPPED
    /\ c.jobSets[loop.jobSetID].HealthStatus = DEGRADED
    /\ \E k \in DOMAIN c.jobSets[loop.jobSetID].Steps :
          c.jobSets[loop.jobSetID].Steps[k].T = StepTypeConcurrent

\* the pass is sending the JobRequest of a step that lies in a concurrent step
SendingConcurrentChild ==
    /\ loop.pc = "send"
    /\ \E k \in DOMAIN c.jobSets[loop.jobSetID].Steps :
          /\ c.jobSets[loop.jobSetID].Steps[k].T = StepTypeConcurrent
          /\ \E a \in SeqToSet(c.jobSets[loop.jobSetID].Steps[k].ConcurrentSteps) :
                c.jobSets[loop.jobSetID].Steps[a].AgentJobID = loop.jr.JobID

\* C10: while a pass dispatches the agent steps of a concurrent step for
\* which the free capacity suffices, the Job Runner takes every JobRequest:
\* it is never stuck publishing a record that the pass is not there to read
C10_ConcurrentStepsDispatched ==
    (/\ Alive
     /\ SendingConcurrentChild
     /\ Cardinality(c.activeJobs) + Len(loop.ready) <= maxJobsRunning) =>
        runner.pc # "publish"

\* the agent step named name among the steps ids of the JobSet js has a Job
\* whose status the Controller knows as st
ChildJobEnded(js, ids, name, st) ==
    \E k \in SeqToSet(ids) :
        /\ js.Steps[k].AgentName = name
        /\ js.Steps[k].AgentJobID \in DOMAIN c.jobs
        /\ c.jobs[js.Steps[k].AgentJobID].Status = st

\* C11: in a JobSet of [Concurrent([A, B]), C], once the Controller knows
\* A's Job as STOPPED/OK and B's Job as STOPPED/ERROR and its pass has
\* returned, the JobSet is STOPPED with health ERROR, is no longer in
\* activeJobSets, and no step after the concurrent step has a Job
C11_ConcurrentFailureStopsJobSet ==
    \A id \in DOMAIN c.jobSets :
        (/\ Alive
         /\ ~ctxDone
         /\ loop.pc = "select"
         /\ c.jobSets[id].TemplateName = "CC"
         /\ ChildJobEnded(c.jobSets[id], TopStep(c.jobSets[id], 1).ConcurrentSteps,
                          "A", StatusReport(STOPPED, OK))
         /\ ChildJobEnded(c.jobSets[id], TopStep(c.jobSets[id], 1).ConcurrentSteps,
                          "B", StatusReport(STOPPED, ERROR))) =>
            /\ c.jobSets[id].RunStatus = STOPPED
            /\ c.jobSets[id].HealthStatus = ERROR
            /\ id \notin c.activeJobSets
            /\ TopStep(c.jobSets[id], 2).AgentJobID = 0

\* what the step k of the JobSet js of the Controller d stands for is over
StepTerminal(d, js, k) ==
    CASE js.Steps[k].T = StepTypeAgent ->
            /\ js.Steps[k].AgentJobID \in DOMAIN d.jobs
            /\ d.jobs[js.Steps[k].AgentJobID].Status.RunStatus = STOPPED
      [] js.Steps[k].T = StepTypeJobSet ->
            /\ js.Steps[k].SubJobSetID \in DOMAIN d.jobSets
            /\ d.jobSets[js.Steps[k].SubJobSetID].RunStatus = STOPPED
      [] OTHER ->
            \A kid \in SeqToSet(js.Steps[k].ConcurrentSteps) :
                js.Steps[kid].RunStatus = STOPPED

StoppedInError(step) == step.RunStatus = STOPPED /\ step.HealthStatus = ERROR

\* the step k of the JobSet id is STOPPED/ERROR after the step and was not before
BecomesStoppedInError(id, k) ==
    /\ id \in DOMAIN c.jobSets
    /\ k \in DOMAIN c.jobSets[id].Steps
    /\ ~StoppedInError(c.jobSets[id].Steps[k])
    /\ StoppedInError(c'.jobSets[id].Steps[k])

PrecedingStopped(js, k) ==
    \A i, j \in 1..Len(js.TopSteps) :
        (i < j /\ k \in StepsInside(js.Steps, << js.TopSteps[j] >>)) =>
            TopStep(js, i).RunStatus = STOPPED

\* C13: a Job of a JobSet that was made for a jobset step exists only if
\* every step before that jobset step in the parent JobSet is STOPPED
C13_SubJobSetWaitsForParent ==
    \A j \in DOMAIN c.jobs :
        (/\ c.jobs[j].JobSetID \in DOMAIN c.jobSets
         /\ c.jobSets[c.jobs[j].JobSetID].ParentJobSetID \in DOMAIN c.jobSets) =>
            PrecedingStopped(c.jobSets[c.jobSets[c.jobs[j].JobSetID].ParentJobSetID],
                             c.jobSets[c.jobs[j].JobSetID].ParentJobStepID)

\* the JobSets made for the step k of the JobSet id
JobSetsFor(id, k) ==
    { sub \in DOMAIN c.jobSets : /\ c.jobSets[sub].ParentJobSetID = id
                                 /\ c.jobSets[sub].ParentJobStepID = k }

\* C14: every jobset step of a JobSet is marked as submitted from its
\* instantiation on, and at most one JobSet was made for it
C14_OneRequestPerSubJobSetStep ==
    \A id \in DOMAIN c.jobSets : \A k \in DOMAIN c.jobSets[id].Steps :
        c.jobSets[id].Steps[k].T = StepTypeJobSet =>
            /\ c.jobSets[id].Steps[k].SubJobSetRequestSubmitted
            /\ Cardinality(JobSetsFor(id, k)) <= 1

\* every step of the JobSet js has a Job that the Controller knows as STOPPED/OK
AllJobsStoppedOK(js) ==
    \A i \in 1..Len(js.TopSteps) :
        /\ TopStep(js, i).AgentJobID \in DOMAIN c.jobs
        /\ c.jobs[TopStep(js, i).AgentJobID].Status = StatusReport(STOPPED, OK)

\* C15: in a JobSet of Outer = [A, JobSet(Inner), C], once the Job of A and
\* every Job of the sub-JobSet are STOPPED/OK and the pass has returned, the
\* jobset step has the sub-JobSet's status, STOPPED/OK, and C has a Job
C15_ParentGoesOnAfterSubJobSet ==
    \A id \in DOMAIN c.jobSets :
        (/\ Alive
         /\ ~ctxDone
         /\ loop.pc = "select"
         /\ c.jobSets[id].TemplateName = "Outer"
         /\ TopStep(c.jobSets[id], 1).AgentJobID \in DOMAIN c.jobs
         /\ c.jobs[TopStep(c.jobSets[id], 1).AgentJobID].Status = StatusReport(STOPPED, OK)
         /\ TopStep(c.jobSets[id], 2).SubJobSetID \in DOMAIN c.jobSets
         /\ AllJobsStoppedOK(c.jobSets[TopStep(c.jobSets[id], 2).SubJobSetID])) =>
            /\ StepWithStatus(TopStep(c.jobSets[id], 2), StatusReport(STOPPED, OK))
                   = TopStep(c.jobSets[id], 2)
            /\ c.jobSets[TopStep(c.jobSets[id], 2).SubJobSetID].RunStatus = STOPPED
            /\ TopStep(c.jobSets[id], 3).AgentJobID # 0

\* C17: the record that the Job Runner is publishing for a JobRequest with
\* an agent name outside its registry is STOPPED/ERROR, and the job has no
\* Session
C17_UnknownAgentRecordTerminal ==
    (/\ runner.pc = "publish"
     /\ ~inJobStreamClosed
     /\ jd.jobs[runner.jobID].AgentName \notin jd.cfg.Agents) =>
        /\ jd.jobs[runner.jobID].Status = StatusReport(STOPPED, ERROR)
        /\ runner.jobID \notin DOMAIN sessions

\* C18: no Job is created for a step whose agent is not registered
C18_NoJobForUnknownAgent ==
    \A j \in DOMAIN c.jobs : c.jobs[j].AgentName \in c.agents

\* C19: whenever the event loop can receive a JobSetRequest, createNewJobSets
\* after it leaves the pending queue empty
C19_DrainEmptiesQueue ==
    (Alive /\ loop.pc = "select") =>
        \A t \in c.jobSetTemplates :
            createNewJobSets(
                [c EXCEPT !.pendingJSRs =
                    Append(@, JobSetRequest(t, "cfg1", 0, 0, c.nextJobSetID)),
                          !.nextJobSetID = @ + 1]).pendingJSRs = << >>

\* the source strings of the inputs ins
Sources(ins) == { ins[i].Source : i \in 1..Len(ins) }

\* the sources the Job of step k of the JobSet js is to get: one for each
\* agent step among the steps before it
PriorAgentSources(js, k) ==
    { << js.Steps[p].AgentName, js.JobSetID, js.Steps[p].AgentJobID >> :
        p \in { p \in PriorSteps(js, k) : js.Steps[p].T = StepTypeAgent } }

\* C16: the configuration of every Job holds, in its code inputs and in
\* its SPDX inputs, exactly one entry for each agent step among the prior
\* top-level steps of its JobSet (concurrent steps flattened), with the
\* source <agentName>.<jobSetID>.<jobID> of that step's Job
C16_InputsFromPriorAgentSteps ==
    \A j \in DOMAIN c.jobs :
        /\ PriorAgentSources(c.jobSets[c.jobs[j].JobSetID], c.jobs[j].JobSetStepID)
              \subseteq Sources(c.jobs[j].Cfg.CodeInputs)
        /\ PriorAgentSources(c.jobSets[c.jobs[j].JobSetID], c.jobs[j].JobSetStepID)
              \subseteq Sources(c.jobs[j].Cfg.SpdxInputs)
        /\ Cardinality({ p \in PriorSteps(c.jobSets[c.jobs[j].JobSetID], c.jobs[j].JobSetStepID) :
                            c.jobSets[c.jobs[j].JobSetID].Steps[p].T = StepTypeAgent })
              = Cardinality({ i \in 1..Len(c.jobs[j].Cfg.CodeInputs) :
                                c.jobs[j].Cfg.CodeInputs[i].Source[2] = c.jobs[j].JobSetID })
        /\ Len(c.jobs[j].Cfg.SpdxInputs) = Len(c.jobs[j].Cfg.CodeInputs)

\* C20: Start succeeds at most once: the Controller never makes a second
\* Job Runner, a second event loop or a second request channel
C20_SecondStartRejected ==
    /\ c.jobControllers <= 1
    /\ c.processorLoops <= 1
    /\ c.inJobSetStreams <= 1

\* C21: once Start has succeeded the agents table no longer changes, and
\* the Job Runner's registry is the one it was started with
C21_AgentsFixedAfterStart ==
    [][c.processorLoops >= 1 =>
          /\ c'.agents = c.agents
          /\ (c'.jobControllers = c.jobControllers => jd'.cfg = jd.cfg)]_vars

\* C22: whenever the event loop has exited, the Controller's runStatus is
\* STOPPED and it is closed for JobSetRequests
C22_ExitedMeansStopped ==
    loop.pc = "exited" => (c.runStatus = STOPPED /\ ~c.openForJobSetRequests)

\* C24: once the Job Runner's loop has ended on its cancelled context, no
\* Session is blocked in the send of an update (nothing receives from rc
\* any more, so a Session that is would stay so forever)
C24_NoSessionBlockedAfterCancel ==
    runner.pc = "exited" => \A id \in DOMAIN sessions : sessions[id].pc # "send"

\* C29: once the Controller has closed the JobRequest channel, the Job
\* Runner creates no job record and spawns no Session
C29_NothingNewAfterClose ==
    [][inJobStreamClosed =>
          /\ DOMAIN jd'.jobs = DOMAIN jd.jobs
          /\ DOMAIN sessions' = DOMAIN sessions]_vars

\* the last message appended to the Controller's error message is msg
LastErrorMsg(c0, msg) ==
    /\ c0.errorMsg # << >>
    /\ c0.errorMsg[Len(c0.errorMsg)] = msg

\* C23: the step in which the error of the Job Runner's error channel is
\* appended to the Controller's error message leaves the health ERROR and
\* the event loop ended, runs no scheduler pass and creates no Job; and
\* once the loop has ended the Controller's state no longer changes
C23_RunnerErrorEndsLoop ==
    [][/\ (c'.errorMsg # c.errorMsg /\ LastErrorMsg(c', "errc")) =>
             /\ c'.errorMsg = Append(c.errorMsg, "errc")
             /\ c'.healthStatus = ERROR
             /\ loop'.pc = "exited"
             /\ c'.jobs = c.jobs
             /\ c'.jobSets = c.jobSets
             /\ c'.activeJobs = c.activeJobs
             /\ c'.nextJobID = c.nextJobID
       /\ loop.pc = "exited" => c' = c]_vars

\* the loop ended on an error of the Job Runner while Jobs were active
C23_Witness ==
    /\ loop.pc = "exited"
    /\ LastErrorMsg(c, "errc")
    /\ c.healthStatus = ERROR
    /\ c.activeJobs # {}

\* the Session of job id hands its update to the Job Runner in this step
UpdateTaken(id) ==
    /\ id \in DOMAIN sessions
    /\ sessions[id].pc = "send"
    /\ sessions'[id].pc # "send"

\* C25: every update that a Session emits is the next thing the Job Runner
\* publishes, as the record of that job with the update's status, and the
\* Runner neither changes a record nor takes another update while it is
\* publishing; so the records of one job appear in the order of its
\* Session's updates
C25_RecordsInSessionOrder ==
    [][/\ \A id \in DOMAIN sessions :
             UpdateTaken(id) =>
                /\ runner.pc = "select"
                /\ runner' = [pc |-> "publish", jobID |-> id]
                /\ jd'.jobs[id].Status = sessions[id].upd.Status
       /\ runner.pc = "publish" =>
             /\ jd' = jd
             /\ \A id \in DOMAIN sessions : ~UpdateTaken(id)
             /\ runner' = runner \/ runner'.pc = "select"]_vars

\* the Job Runner publishes the record of a job after its Session's second
\* update while the Session of another job is sending an update
C25_Witness ==
    /\ runner.pc = "publish"
    /\ runner.jobID \in DOMAIN sessions
    /\ sessions[runner.jobID].pc = "done"
    /\ sessions[runner.jobID].reports = 1
    /\ sessions[runner.jobID].path = "error"
    /\ \E id \in DOMAIN sessions : id # runner.jobID /\ sessions[id].pc = "send"

\* C26: when the Job Runner applies a Session's update, a run status or
\* health that comes as SAME leaves the record's value as it was
C26_SameKeepsRecord ==
    [][\A id \in DOMAIN sessions :
          UpdateTaken(id) =>
             /\ sessions[id].upd.Status.RunStatus = STATUS_SAME =>
                   jd'.jobs[id].Status.RunStatus = jd.jobs[id].Status.RunStatus
             /\ sessions[id].upd.Status.HealthStatus = HEALTH_SAME =>
                   jd'.jobs[id].Status.HealthStatus = jd.jobs[id].Status.HealthStatus]_vars

NotSame(st) == st.RunStatus # STATUS_SAME /\ st.HealthStatus # HEALTH_SAME

\* C27: no Job, no JobSet and no step stored in the Controller has the run
\* status SAME or the health SAME
C27_NoSameStored ==
    /\ \A j \in DOMAIN c.jobs : NotSame(c.jobs[j].Status)
    /\ \A id \in DOMAIN c.jobSets :
          /\ NotSame(c.jobSets[id])
          /\ \A k \in DOMAIN c.jobSets[id].Steps : NotSame(c.jobSets[id].Steps[k])

\* the Controller comes to know the job j as STOPPED/ERROR in this step
EndsInError(j) ==
    /\ c.jobs[j].Status # StatusReport(STOPPED, ERROR)
    /\ c'.jobs[j].Status = StatusReport(STOPPED, ERROR)

\* the JobSet id and the JobSets that hold it through jobset steps
RECURSIVE JobSetAndAncestors(_, _)
JobSetAndAncestors(jobSets, id) ==
    IF id \notin DOMAIN jobSets THEN {}
    ELSE {id} \cup JobSetAndAncestors(jobSets, jobSets[id].ParentJobSetID)

\* C28 as claimed: in the step in which a Job ends STOPPED/ERROR every
\* JobSet that neither owns the Job nor holds its JobSet keeps its run
\* status and its health, and the Controller keeps its health
C28_OtherJobSetsKeepStatus ==
    [][\A j \in DOMAIN c.jobs : EndsInError(j) =>
          /\ c'.healthStatus = c.healthStatus
          /\ \A id \in DOMAIN c.jobSets \ JobSetAndAncestors(c.jobSets, c.jobs[j].JobSetID) :
                /\ c'.jobSets[id].RunStatus = c.jobSets[id].RunStatus
                /\ c'.jobSets[id].HealthStatus = c.jobSets[id].HealthStatus]_vars

\* C28 as amended: in the step in which a Job ends STOPPED/ERROR every
\* JobSet that neither owns the Job nor holds its JobSet keeps its health,
\* and its run status either stays or goes from STARTUP to RUNNING (the
\* scheduler pass of that step may start a JobSet that was waiting); the
\* Controller keeps its run status and its health
C28_OtherJobSetsKeepHealth ==
    [][\A j \in DOMAIN c.jobs : EndsInError(j) =>
          /\ c'.healthStatus = c.healthStatus
          /\ c'.runStatus = c.runStatus
          /\ \A id \in DOMAIN c.jobSets \ JobSetAndAncestors(c.jobSets, c.jobs[j].JobSetID) :
                /\ c'.jobSets[id].HealthStatus = c.jobSets[id].HealthStatus
                /\ \/ c'.jobSets[id].RunStatus = c.jobSets[id].RunStatus
                   \/ /\ c.jobSets[id].RunStatus = STARTUP
                      /\ c'.jobSets[id].RunStatus = RUNNING]_vars

\* a Job that ended STOPPED/ERROR has been retired by a pass while a JobSet
\* other than its own is RUNNING with health OK
C28_Witness ==
    \E j \in DOMAIN c.jobs :
        /\ c.jobs[j].Status = StatusReport(STOPPED, ERROR)
        /\ j \notin c.activeJobs
        /\ \E id \in DOMAIN c.jobSets \ JobSetAndAncestors(c.jobSets, c.jobs[j].JobSetID) :
              /\ c.jobSets[id].RunStatus = RUNNING
              /\ c.jobSets[id].HealthStatus = OK

\* C30: a refresh request for a tracked job republishes its record and
\* changes nothing in the Job Runner's mirror, and a refresh request with
\* job ID 0 republishes when there are tracked jobs
C30_RefreshRepublishes ==
    /\ \A id \in DOMAIN jd.jobs :
          /\ broadcastJobRecord(jd, id).publish
          /\ broadcastJobRecord(jd, id).jd = jd
    /\ jd.jobs # << >> => broadcastJobRecord(jd, 0).publish

\* C31: a JobSet instantiated from a registered template without steps is
\* STOPPED with health OK once the event loop has handled the event that
\* instantiated it (the loop is back in its select), and no Job belongs to it
C31_EmptyJobSetStopsAtOnce ==
    \A id \in DOMAIN c.jobSets :
        (c.jobSets[id].TemplateName = EmptyTemplate /\ loop.pc = "select")
        => /\ c.jobSets[id].RunStatus = STOPPED
           /\ c.jobSets[id].HealthStatus = OK
           /\ \A j \in DOMAIN c.jobs : c.jobs[j].JobSetID # id

\* C32: when the Job Runner takes the JobRequest that the scheduler pass is
\* sending and starts a job for it, the record it goes on to publish carries
\* the job ID and the agent name of the request, so the record refers to the
\* Job the Controller created for the request
C32_RecordCarriesRequestedID ==
    [][(loop.pc = "send" /\ jd'.nextJobID # jd.nextJobID)
       => /\ runner'.pc = "publish"
          /\ runner'.jobID = loop.jr.JobID
          /\ jd'.jobs[runner'.jobID].AgentName = loop.jr.AgentName]_vars

\* C33: whenever the scheduler pass is blocked in the send of a JobRequest,
\* the Job Runner stands in its select, where it can receive the request: it
\* is never blocked publishing a JobRecord that only the event loop, which
\* is inside the pass, could receive
C33_SendFindsRunnerReceiving ==
    (Alive /\ loop.pc = "send") => runner.pc = "select"

\* the Agent step that the Job j was created for
StepOfJob(j) == c.jobSets[c.jobs[j].JobSetID].Steps[c.jobs[j].JobSetStepID]

\* C34: a Job that the scheduler pass has retired from activeJobs is one
\* whose JobSet's statuses were bubbled with the Job STOPPED; bubbling leaves
\* Agent steps as they are, so the Job's step must then show the Job's run
\* status and health, STOPPED in particular
C34_AgentStepMirrorsJob ==
    \A j \in DOMAIN c.jobs :
        (Alive /\ c.jobs[j].Status.RunStatus = STOPPED /\ j \notin c.activeJobs)
        => /\ StepOfJob(j).AgentJobID = j
           /\ StepOfJob(j).RunStatus = c.jobs[j].Status.RunStatus
           /\ StepOfJob(j).HealthStatus = c.jobs[j].Status.HealthStatus

\* C35: a JobSetRequest does not wait in the pending queue for the next
\* outside request: when the event loop and the Job Runner wait in their
\* selects, every Session has returned and nobody has cancelled, so that
\* nothing happens until the next call from outside, no request is pending
C35_NoRequestLeftWaiting ==
    (Alive /\ Quiet /\ ~ctxDone) => c.pendingJSRs = << >>

\* the JobSet IDs under which the step from the Controller c0 to c1 has
\* instantiated JobSets
NewlyCreated(c0, c1) ==
    { c1.createdJobSetIDs[i] :
        i \in (Len(c0.createdJobSetIDs) + 1) .. Len(c1.createdJobSetIDs) }

\* C36: no drain instantiates a request that an earlier drain has
\* instantiated: a request from outside carries the JobSet ID it was given,
\* so no drain creates a JobSet under an ID that a JobSet was created under
\* before it
C36_NoRequestInstantiatedAgain ==
    [][NewlyCreated(c, c') \cap SeqToSet(c.createdJobSetIDs) = {}]_vars

\* the agent steps (JobSet ID, step ID) of the Controller c0 that a Job was
\* created for
Dispatched(c0) ==
    { << id, k >> \in UNION { {id} \X DOMAIN c0.jobSets[id].Steps : id \in DOMAIN c0.jobSets } :
        c0.jobSets[id].Steps[k].AgentJobID # 0 }

\* C37: a step that a Job was created for keeps its job ID and is not in
\* STARTUP again after any step of the system, and no two Jobs were created
\* for the same step of the same JobSet
C37_StepDispatchedOnce ==
    [][/\ \A p \in Dispatched(c) :
            /\ p \in Dispatched(c')
            /\ c'.jobSets[p[1]].Steps[p[2]].AgentJobID
                   = c.jobSets[p[1]].Steps[p[2]].AgentJobID
            /\ c'.jobSets[p[1]].Steps[p[2]].RunStatus # STARTUP
       /\ \A i, j \in DOMAIN c'.jobs :
            (c'.jobs[i].JobSetID = c'.jobs[j].JobSetID
             /\ c'.jobs[i].JobSetStepID = c'.jobs[j].JobSetStepID) => i = j]_vars

\* C38: status bubbling never reaches its fatal-abort branch: no scheduler
\* pass finds a jobset step whose SubJobSetID is no key of jobSets (nor a
\* Job whose JobSet is unknown), so the process never ends in log.Fatalf
C38_BubblingNeverAborts == ~c.fatal

\* C39: rc is closed only when the Job Runner was cancelled, its goroutine
\* has left and every Session has returned; once rc is closed no Session
\* takes another step, so none sends on it; and once the Runner's goroutine
\* has left, having released its own count of the WaitGroup, no Session is
\* spawned and the WaitGroup's counter does not grow
C39_RcClosedAfterAllLeft ==
    [][/\ rcClosed' => /\ jcCtxDone'
                       /\ runner'.pc = "exited"
                       /\ n' = 0
                       /\ \A id \in DOMAIN sessions' : sessions'[id].pc = "done"
       /\ rcClosed => sessions' = sessions
       /\ runner.pc = "exited" => /\ DOMAIN sessions' = DOMAIN sessions
                                  /\ n' <= n]_vars

\* rc was closed after two Sessions had run, one of which had sent an update
C39_Witness ==
    /\ rcClosed
    /\ Cardinality(DOMAIN sessions) >= 2
    /\ \E id \in DOMAIN sessions : sessions[id].reports > 0

=============================================================================
